---- MODULE Spec2Model ----
(***************************************************************************)
(* Model of the CV -> "Dossier de Compétences" extraction engine           *)
(* (anasakhssas/CV_2_DC, package app).                                     *)
(*                                                                         *)
(* Every entry point of the package is a pure function of its input, so    *)
(* the model is a family of small state machines that share one set of     *)
(* variables: `comp` names the entry point that was invoked, `pc` its      *)
(* position, and the remaining variables are its inputs, locals and        *)
(* results.  Texts are abstracted to the features the regular expressions  *)
(* of the source test (which keyword classes occur on a line, which       *)
(* taxonomy terms, which date shapes); the date, score and confidence      *)
(* arithmetic is kept exact, in integers:                                  *)
(*   - a calendar date is the integer Date(y, m, d);                       *)
(*   - a confidence is counted in hundredths (95 is 0.95);                 *)
(*   - a language level is counted in tenths (35 is 3.5);                  *)
(*   - total_years is counted in tenths of a year.                         *)
(***************************************************************************)
EXTENDS Integers, Sequences, FiniteSets, TLC

VARIABLES
    comp,                    \* entry point invoked
    pc,                      \* position inside the entry point
    \* ---- years_calculator.py ----
    experiences,             \* list[Experience] (argument, or extractor result)
    idx,                     \* loop index of `for exp in experiences`
    intervals,               \* list[(date, date)]
    intervals_no_internship, \* list[(date, date)]
    missing_dates,           \* list[str]
    merged,                  \* _merge_intervals(intervals)
    merged_no_intern,        \* _merge_intervals(intervals_no_internship)
    result,                  \* YearsOfExperience
    \* ---- skills_extractor.py ----
    text,                    \* the document, a list of lines
    cfg,                     \* config.py taxonomies and SKILL_ALIASES
    skill_data,              \* extract_skills.skill_data, in insertion order
    tool_data,               \* extract_top_tools.tool_data, in insertion order
    hard_skills,             \* list[Skill]
    soft_skills,             \* list[Skill]
    top_tools,               \* list[Tool]
    \* ---- language_extractor.py ----
    lang_text,               \* the document as the language extractor sees it
    found_languages,         \* extract_languages.found_languages, in insertion order
    languages,               \* list[Language]
    \* ---- education_extractor.py, experience_extractor.py ----
    edu_text,                \* the document as the education extractor sees it
    exp_blocks,              \* the blocks of the experience section
    split_section,           \* the text given to _split_into_experience_blocks
    split_blocks,            \* the list it returns
    educations,              \* list[Education]
    last_degree,             \* LastDegree | None, as a list of 0 or 1
    \* ---- main.py ----
    upload,                  \* the uploaded file
    llm_available,           \* llm_service.is_available()
    llm_edu,                 \* what enhance_education returned
    llm_exp,                 \* what enhance_experiences returned
    candidate_name,
    name_confidence,
    missing_info,            \* list[str]
    missing_info_bound,      \* the local missing_info has been assigned
    photo_result,
    heur_educations,         \* the educations list before the enrichment
    heur_experiences,        \* the experiences list before the enrichment
    overall,                 \* overall_confidence
    status,                  \* HTTP status of the response, 0 while running
    error                    \* the exception behind a 500

varsYearsLocals == <<idx, intervals, intervals_no_internship,
                     missing_dates, merged, merged_no_intern, result>>

varsYears == <<experiences, varsYearsLocals>>

varsSkills == <<text, cfg, skill_data, tool_data, hard_skills, soft_skills, top_tools>>

varsLang == <<lang_text, found_languages, languages>>

varsDocs == <<edu_text, exp_blocks, split_section, split_blocks, educations, last_degree>>

varsRequest == <<upload, llm_available, llm_edu, llm_exp, candidate_name, name_confidence,
                 missing_info, missing_info_bound, photo_result, heur_educations,
                 heur_experiences, overall, status, error>>

vars == <<comp, pc, varsYears, varsSkills, varsLang, varsDocs, varsRequest>>

----------------------------------------------------------------------------
(* Generic helpers                                                         *)

Max(a, b) == IF a >= b THEN a ELSE b
Min(a, b) == IF a <= b THEN a ELSE b

Range(s) == {s[k] : k \in 1..Len(s)}

Front(s) == SubSeq(s, 1, Len(s) - 1)
Last(s) == s[Len(s)]

\* all sequences over S of length 0..n
SeqsUpTo(S, n) == UNION {[1..k -> S] : k \in 0..n}

RECURSIVE Perms(_)
\* all orderings of the finite set S
Perms(S) ==
    IF S = {} THEN {<<>>}
    ELSE UNION {{<<x>> \o p : p \in Perms(S \ {x})} : x \in S}

\* Python round(n / d, k) on the scaled integers: nearest, ties to even
RoundHalfEven(n, d) ==
    LET q == n \div d
        r == n % d
    IN  IF 2 * r < d THEN q
        ELSE IF 2 * r > d THEN q + 1
        ELSE IF q % 2 = 0 THEN q ELSE q + 1

----------------------------------------------------------------------------
(* Calendar dates (datetime.date), as integers that compare like dates     *)

Date(y, m, d) == (y * 12 + (m - 1)) * 32 + d
YearOf(x) == (x \div 32) \div 12
MonthOf(x) == ((x \div 32) % 12) + 1

NoDate == 0 - 1                     \* Python None for a date

Today == Date(2022, 3, 15)          \* date.today()

----------------------------------------------------------------------------
(* Date strings.  A date string is abstracted to its shape:                *)
(*   "null"    None or ""                                                  *)
(*   "present" contains a present keyword ("présent", "now", ...)          *)
(*   "mon"     month name + year           ("Jun 2018", "juin 2018")       *)
(*   "ym"      numeric month and year      ("2018-01", "01/2018")          *)
(*   "year"    a bare year                 ("2018")                        *)
(*   "junk"    text without any 19xx/20xx year                             *)

DateStr(form, y, m) == [form |-> form, y |-> y, m |-> m]
NullStr == DateStr("null", 0, 0)
PresentStr == DateStr("present", 0, 0)

\* _parse_date(date_str, is_end)
parse_date(ds, is_end) ==
    IF ds.form = "null" THEN NoDate                       \* if not date_str
    ELSE IF ds.form = "present" THEN Today                \* _PRESENT_KEYWORDS
    ELSE IF ds.form = "junk" THEN NoDate                  \* no year_match
    ELSE IF ds.form = "mon" THEN Date(ds.y, ds.m, 1)      \* _MONTH_MAP name found
    ELSE \* "ym", "year": no month NAME in the string, month_match is None
         Date(ds.y, IF is_end THEN 12 ELSE 1, 1)

----------------------------------------------------------------------------
(* _merge_intervals: sorted sweep                                          *)

\* insert x behind every element whose start is <= x's start
InsertByStart(s, x) ==
    LET before == {k \in 1..Len(s) : s[k][1] <= x[1]}
        n == Cardinality(before)
    IN  SubSeq(s, 1, n) \o <<x>> \o SubSeq(s, n + 1, Len(s))

RECURSIVE SortByStart(_)
\* sorted(intervals, key=lambda x: x[0]) -- stable
SortByStart(s) ==
    IF s = <<>> THEN <<>>
    ELSE InsertByStart(SortByStart(Front(s)), Last(s))

\* SweepStep with `merged[-1] = (last_start, end)`: the max() is lost
SweepStep_NoMax(acc, iv) ==
    LET last == Last(acc)
    IN  IF iv[1] <= last[2]
        THEN Front(acc) \o <<(<<last[1], iv[2]>>)>>
        ELSE Append(acc, iv)

\* one iteration of `for start, end in sorted_intervals[1:]`
SweepStep(acc, iv) ==
    LET last == Last(acc)
    IN  IF iv[1] <= last[2]
        THEN Front(acc) \o <<(<<last[1], Max(last[2], iv[2])>>)>>
        ELSE Append(acc, iv)

RECURSIVE Sweep(_, _)
Sweep(acc, rest) ==
    IF rest = <<>> THEN acc
    ELSE Sweep(SweepStep(acc, Head(rest)), Tail(rest))

merge_intervals(ivs) ==
    IF ivs = <<>> THEN <<>>
    ELSE LET sorted_intervals == SortByStart(ivs)
         IN  Sweep(<<Head(sorted_intervals)>>, Tail(sorted_intervals))

----------------------------------------------------------------------------
(* calculate_years_of_experience                                           *)

\* A position / mission text is abstracted to what the internship regex
\* \b(stage|stagiaire|intern|internship)\b sees in it:
\*   "none" (None), "plain" (no keyword), "keyword" (a keyword as a word),
\*   "substring" (a keyword only inside a longer word: "international")
HasInternKeyword_PositionOnly(position, mission_summary) ==
    position = "keyword"

HasInternKeyword(position, mission_summary) ==
    position = "keyword" \/ mission_summary = "keyword"

MonthsOf(iv) == (YearOf(iv[2]) - YearOf(iv[1])) * 12 + (MonthOf(iv[2]) - MonthOf(iv[1]))

RECURSIVE SumMonths(_)
SumMonths(ivs) ==
    IF ivs = <<>> THEN 0
    ELSE Max(MonthsOf(Head(ivs)), 0) + SumMonths(Tail(ivs))

MissingLine(kind, exp) == [kind |-> kind, position |-> exp.position]

NoResult == [total_months |-> 0, total_years |-> 0,
             total_years_excluding_internships |-> 0,
             intervals |-> <<>>, missing_dates |-> <<>>, confidence |-> 100]

\* the loop body without the test `if end < start`
CalcLoop_KeepInverted ==
    /\ comp = "years" /\ pc = "loop"
    /\ idx <= Len(experiences)
    /\ LET exp == experiences[idx]
           start == parse_date(exp.start_date, FALSE)
           end0 == parse_date(exp.end_date, TRUE)
           end == IF end0 = NoDate THEN Today ELSE end0
           md1 == IF end0 = NoDate
                  THEN Append(missing_dates, MissingLine("end_absent", exp))
                  ELSE missing_dates
       IN  IF start = NoDate
           THEN /\ missing_dates' = Append(missing_dates, MissingLine("start_missing", exp))
                /\ UNCHANGED <<intervals, intervals_no_internship>>
           ELSE /\ missing_dates' = md1
                /\ intervals' = Append(intervals, <<start, end>>)
                /\ intervals_no_internship' =
                       IF HasInternKeyword(exp.position, exp.mission_summary)
                       THEN intervals_no_internship
                       ELSE Append(intervals_no_internship, <<start, end>>)
    /\ idx' = idx + 1
    /\ UNCHANGED <<comp, pc, experiences, merged, merged_no_intern, result>>
    /\ UNCHANGED <<varsSkills, varsLang, varsDocs, varsRequest>>

\* body of `for exp in experiences` for the experience at idx
CalcLoop ==
    /\ comp = "years" /\ pc = "loop"
    /\ idx <= Len(experiences)
    /\ LET exp == experiences[idx]
           start == parse_date(exp.start_date, FALSE)
           end0 == parse_date(exp.end_date, TRUE)
           end == IF end0 = NoDate THEN Today ELSE end0
           md1 == IF end0 = NoDate
                  THEN Append(missing_dates, MissingLine("end_absent", exp))
                  ELSE missing_dates
       IN  IF start = NoDate
           THEN /\ missing_dates' = Append(missing_dates, MissingLine("start_missing", exp))
                /\ UNCHANGED <<intervals, intervals_no_internship>>
           ELSE IF end < start
           THEN /\ missing_dates' = Append(md1, MissingLine("end_before_start", exp))
                /\ UNCHANGED <<intervals, intervals_no_internship>>
           ELSE /\ missing_dates' = md1
                /\ intervals' = Append(intervals, <<start, end>>)
                /\ intervals_no_internship' =
                       IF HasInternKeyword(exp.position, exp.mission_summary)
                       THEN intervals_no_internship
                       ELSE Append(intervals_no_internship, <<start, end>>)
    /\ idx' = idx + 1
    /\ UNCHANGED <<comp, pc, experiences, merged, merged_no_intern, result>>
    /\ UNCHANGED <<varsSkills, varsLang, varsDocs, varsRequest>>

\* the same with the months without internships summed over the unmerged list
CalcFinish_NoInternUnmerged ==
    /\ comp = "years" /\ pc = "loop"
    /\ idx > Len(experiences)
    /\ LET m == merge_intervals(intervals)
           mn == intervals_no_internship
           total_months == SumMonths(m)
           total_months_no_intern == SumMonths(mn)
           n == Len(missing_dates)
       IN  /\ merged' = m
           /\ merged_no_intern' = mn
           /\ result' =
                [total_months |-> total_months,
                 total_years |-> RoundHalfEven(total_months * 10, 12),
                 total_years_excluding_internships |->
                     RoundHalfEven(total_months_no_intern * 10, 12),
                 intervals |-> [k \in 1..Len(m) |->
                     [start |-> m[k][1], end |-> m[k][2], months |-> MonthsOf(m[k])]],
                 missing_dates |-> missing_dates,
                 confidence |-> Max(0, 100 - Min(50, n * 10))]
    /\ pc' = "done"
    /\ UNCHANGED <<comp, experiences, idx, intervals, intervals_no_internship,
                   missing_dates>>
    /\ UNCHANGED <<varsSkills, varsLang, varsDocs, varsRequest>>

\* everything after the loop: merge, sum, round, build the result
CalcFinish ==
    /\ comp = "years" /\ pc = "loop"
    /\ idx > Len(experiences)
    /\ LET m == merge_intervals(intervals)
           mn == merge_intervals(intervals_no_internship)
           total_months == SumMonths(m)
           total_months_no_intern == SumMonths(mn)
           n == Len(missing_dates)
       IN  /\ merged' = m
           /\ merged_no_intern' = mn
           /\ result' =
                [total_months |-> total_months,
                 total_years |-> RoundHalfEven(total_months * 10, 12),
                 total_years_excluding_internships |->
                     RoundHalfEven(total_months_no_intern * 10, 12),
                 intervals |-> [k \in 1..Len(m) |->
                     [start |-> m[k][1], end |-> m[k][2], months |-> MonthsOf(m[k])]],
                 missing_dates |-> missing_dates,
                 confidence |-> Max(0, 100 - Min(50, n * 10))]
    /\ pc' = "done"
    /\ UNCHANGED <<comp, experiences, idx, intervals, intervals_no_internship,
                   missing_dates>>
    /\ UNCHANGED <<varsSkills, varsLang, varsDocs, varsRequest>>

\* direct calls of _parse_date on the two date strings of one experience,
\* as lines 101-102 make them: the start with is_end=False, the end with
\* is_end=True; the pair of results is kept in `intervals`
ParseDateCall ==
    /\ comp = "parse_date" /\ pc = "call"
    /\ intervals' = <<(<<parse_date(experiences[1].start_date, FALSE),
                         parse_date(experiences[1].end_date, TRUE)>>)>>
    /\ pc' = "done"
    /\ UNCHANGED <<comp, experiences, idx, intervals_no_internship,
                   missing_dates, merged, merged_no_intern, result>>
    /\ UNCHANGED <<varsSkills, varsLang, varsDocs, varsRequest>>

\* a direct call of _merge_intervals on an arbitrary list
MergeCall ==
    /\ comp = "merge" /\ pc = "call"
    /\ merged' = merge_intervals(intervals)
    /\ pc' = "done"
    /\ UNCHANGED <<comp, experiences, idx, intervals, intervals_no_internship,
                   missing_dates, merged_no_intern, result>>
    /\ UNCHANGED <<varsSkills, varsLang, varsDocs, varsRequest>>

----------------------------------------------------------------------------
(* skills_extractor.py                                                     *)
(*                                                                         *)
(* A line of the document is abstracted to                                 *)
(*   head   : the section whose heading pattern (_SECTION_LABELS) matches  *)
(*            the line, or "none";                                         *)
(*   impact : whether _IMPACT_VERBS matches the line;                      *)
(*   terms  : the taxonomy terms matched on the line as whole words,       *)
(*            left to right, one entry per match.                          *)
(*   width  : the number of characters of the line, stripped.              *)
(* Two lines with the same features stand for the same text, so the line   *)
(* record, cut to SnippetCap characters, is also the evidence snippet.     *)
(*                                                                         *)
(* Taxonomy terms are the lower-case spellings 1..NumTerms.  A display     *)
(* name is [low, cased]: `low` is the term its lower-case spelling equals, *)
(* `cased` tells whether it is the capitalised value of SKILL_ALIASES.     *)

TopN == 5               \* hard_skills[:5], soft_skills[:5], tools[:5]
MentionCap == 3         \* if data["mentions"] < 3
MaxEvidence == 3        \* if len(data["evidence"]) < 3
SnippetCap == 200       \* context_line.strip()[:200]

NumTerms == TopN + 1
Terms == 1..NumTerms

Line(head, impact, terms) ==
    [head |-> head, impact |-> impact, terms |-> terms, width |-> 40]

\* a line longer than the snippet cap
LongLine(head, impact, terms) ==
    [head |-> head, impact |-> impact, terms |-> terms, width |-> SnippetCap + 50]

\* context_line.strip()[:200]
Snippet(line) == [line EXCEPT !.width = Min(SnippetCap, line.width)]

\* _SECTION_WEIGHTS, and .get(section, 1)
SectionWeight(section) ==
    CASE section = "skills" -> 3
      [] section = "experience" -> 4
      [] section = "projects" -> 3
      [] section = "certifications" -> 5
      [] section = "other" -> 1
      [] OTHER -> 1

\* _detect_section(text, pos) for a position on line k: the heading with the
\* largest start that is <= pos
detect_section(txt, k) ==
    LET heads == {j \in 1..k : txt[j].head # "none"}
    IN  IF heads = {} THEN "other"
        ELSE txt[CHOOSE j \in heads : \A h \in heads : h <= j].head

\* _normalize_skill(name)
normalize_skill(c, term) ==
    IF c.alias[term] # 0
    THEN [low |-> c.alias[term], cased |-> TRUE]
    ELSE [low |-> term, cased |-> FALSE]

\* _compute_level without the two has_impact tests
compute_level_NoImpactRule(score, has_impact, mention_count) ==
    IF score >= 15 THEN 5
    ELSE IF score >= 10 THEN 4
    ELSE IF score >= 6 \/ mention_count >= 2 THEN 3
    ELSE IF score >= 3 THEN 2
    ELSE 1

\* _compute_level(score, has_impact, mention_count)
compute_level(score, has_impact, mention_count) ==
    IF score >= 15 \/ (has_impact /\ mention_count >= 3) THEN 5
    ELSE IF score >= 10 \/ has_impact THEN 4
    ELSE IF score >= 6 \/ mention_count >= 2 THEN 3
    ELSE IF score >= 3 THEN 2
    ELSE 1

RECURSIVE OccurrencesFrom(_, _, _)
\* pattern.finditer(text) for one term: the line of every match, in text order
OccurrencesFrom(txt, term, k) ==
    IF k > Len(txt) THEN <<>>
    ELSE LET n == Cardinality({j \in 1..Len(txt[k].terms) : txt[k].terms[j] = term})
         IN  [j \in 1..n |-> k] \o OccurrencesFrom(txt, term, k + 1)

Occurrences(txt, term) == OccurrencesFrom(txt, term, 1)

KeyIndex(data, key) ==
    IF \E j \in 1..Len(data) : data[j].key = key
    THEN CHOOSE j \in 1..Len(data) : data[j].key = key
    ELSE 0

\* the defaultdict factory of skill_data
NewSkillData(key) == [key |-> key, name |-> [low |-> 0, cased |-> FALSE], category |-> "",
                      score |-> 0, mentions |-> 0, has_impact |-> FALSE, evidence |-> <<>>]

\* _register_skill with `data["score"] += 1` outside the test on mentions
register_skill_NoMentionCap(data, c, txt, term, category, k) ==
    LET normalized == normalize_skill(c, term)
        key == normalized.low
        pos == KeyIndex(data, key)
        old == IF pos = 0 THEN NewSkillData(key) ELSE data[pos]
        weight == SectionWeight(detect_section(txt, k))
        new == [key |-> key,
                name |-> normalized,
                category |-> category,
                score |-> old.score + weight + 1 + (IF txt[k].impact THEN 2 ELSE 0),
                mentions |-> old.mentions + 1,
                has_impact |-> old.has_impact \/ txt[k].impact,
                evidence |-> IF Len(old.evidence) < MaxEvidence
                                  /\ Snippet(txt[k]) \notin Range(old.evidence)
                             THEN Append(old.evidence, Snippet(txt[k]))
                             ELSE old.evidence]
    IN  IF pos = 0 THEN Append(data, new) ELSE [data EXCEPT ![pos] = new]

\* _register_skill(name, category, position, context_line), position on line k
register_skill(data, c, txt, term, category, k) ==
    LET normalized == normalize_skill(c, term)
        key == normalized.low
        pos == KeyIndex(data, key)
        old == IF pos = 0 THEN NewSkillData(key) ELSE data[pos]
        weight == SectionWeight(detect_section(txt, k))
        new == [key |-> key,
                name |-> normalized,
                category |-> category,
                score |-> old.score + weight
                            + (IF old.mentions < MentionCap THEN 1 ELSE 0)
                            + (IF txt[k].impact THEN 2 ELSE 0),
                mentions |-> old.mentions + 1,
                has_impact |-> old.has_impact \/ txt[k].impact,
                evidence |-> IF Len(old.evidence) < MaxEvidence
                                  /\ Snippet(txt[k]) \notin Range(old.evidence)
                             THEN Append(old.evidence, Snippet(txt[k]))
                             ELSE old.evidence]
    IN  IF pos = 0 THEN Append(data, new) ELSE [data EXCEPT ![pos] = new]

RECURSIVE RegisterMatches(_, _, _, _, _, _)
\* `for m in pattern.finditer(text): _register_skill(...)`
RegisterMatches(data, c, txt, term, category, occs) ==
    IF occs = <<>> THEN data
    ELSE RegisterMatches(register_skill(data, c, txt, term, category, Head(occs)),
                         c, txt, term, category, Tail(occs))

RECURSIVE ScanTaxonomy(_, _, _, _, _)
\* `for skill in TAXONOMY:` in the iteration order `order`
ScanTaxonomy(data, c, txt, order, category) ==
    IF order = <<>> THEN data
    ELSE ScanTaxonomy(RegisterMatches(data, c, txt, Head(order), category,
                                      Occurrences(txt, Head(order))),
                      c, txt, Tail(order), category)

\* min(1.0, 0.3 + mentions * 0.15 + (0.2 if has_impact else 0)), unclamped
Confidence_NoCap(mentions, has_impact) ==
    30 + mentions * 15 + (IF has_impact THEN 20 ELSE 0)

\* min(1.0, 0.3 + mentions * 0.15 + (0.2 if has_impact else 0))
Confidence(mentions, has_impact) ==
    Min(100, 30 + mentions * 15 + (IF has_impact THEN 20 ELSE 0))

\* Skill(...) built from one record of skill_data
SkillOf(d) ==
    [name |-> d.name,
     level |-> compute_level(d.score, d.has_impact, d.mentions),
     category |-> d.category,
     score |-> d.score,
     evidence |-> d.evidence,
     confidence |-> Confidence(d.mentions, d.has_impact)]

\* Tool(...) built from one record of tool_data
ToolOf(d) ==
    [name |-> d.name,
     level |-> compute_level(d.score, d.has_impact, d.mentions),
     score |-> d.score,
     evidence |-> d.evidence,
     confidence |-> Confidence(d.mentions, d.has_impact)]

\* the insertion step of a sort that leaves the list as it was built
InsertByScoreDesc_Append(s, x) == Append(s, x)

\* one insertion of the stable sort: x goes after every entry scoring at
\* least as much
InsertByScoreDesc(s, x) ==
    LET n == Cardinality({k \in 1..Len(s) : s[k].score >= x.score})
    IN  SubSeq(s, 1, n) \o <<x>> \o SubSeq(s, n + 1, Len(s))

RECURSIVE SortByScoreDesc(_)
\* list.sort(key=lambda s: s.score, reverse=True) -- stable
SortByScoreDesc(s) ==
    IF s = <<>> THEN <<>>
    ELSE InsertByScoreDesc(SortByScoreDesc(Front(s)), Last(s))

Take(s, n) == SubSeq(s, 1, Min(n, Len(s)))

RECURSIVE SelectCategory(_, _)
SelectCategory(data, category) ==
    IF data = <<>> THEN <<>>
    ELSE (IF (Head(data).category = "hard") = (category = "hard")
          THEN <<SkillOf(Head(data))>> ELSE <<>>)
         \o SelectCategory(Tail(data), category)

\* extract_skills(text), the two taxonomy sets iterated in the given orders
extract_skills(txt, c, order_hard, order_soft) ==
    LET data1 == ScanTaxonomy(<<>>, c, txt, order_hard, "hard")
        data2 == ScanTaxonomy(data1, c, txt, order_soft, "soft")
    IN  [data |-> data2,
         hard |-> Take(SortByScoreDesc(SelectCategory(data2, "hard")), TopN),
         soft |-> Take(SortByScoreDesc(SelectCategory(data2, "soft")), TopN)]

\* `if tool.lower() in _hard_lower: continue`
IsHardSkillTerm(c, tool) == tool \in c.hard

RECURSIVE ScanTools(_, _, _, _)
\* `for tool in TOOLS_TAXONOMY:` in the iteration order `order`; the body of
\* its inner loop (lines 219-239) repeats _register_skill without category
ScanTools(data, c, txt, order) ==
    IF order = <<>> THEN data
    ELSE ScanTools(IF IsHardSkillTerm(c, Head(order)) THEN data
                   ELSE RegisterMatches(data, c, txt, Head(order), "",
                                        Occurrences(txt, Head(order))),
                   c, txt, Tail(order))

\* no quality gate
PassesGate_Everything(d) == TRUE

\* the quality gate: `if data["mentions"] < 2 and data["score"] < 4: continue`
PassesGate(d) == ~(d.mentions < 2 /\ d.score < 4)

RECURSIVE SelectTools(_)
SelectTools(data) ==
    IF data = <<>> THEN <<>>
    ELSE (IF PassesGate(Head(data)) THEN <<ToolOf(Head(data))>> ELSE <<>>)
         \o SelectTools(Tail(data))

\* extract_top_tools(text), TOOLS_TAXONOMY iterated in the given order
extract_top_tools(txt, c, order) ==
    LET data == ScanTools(<<>>, c, txt, order)
    IN  [data |-> data,
         tools |-> Take(SortByScoreDesc(SelectTools(data)), TopN)]

\* The taxonomies are Python sets: their iteration order is not fixed by the
\* program (string hashing is seeded per process).  Only the terms that occur
\* in the text touch the accumulators, so the orders of those are enumerated.
IterationOrders(txt, taxonomy) == Perms({t \in taxonomy : Occurrences(txt, t) # <<>>})

ExtractSkillsCall ==
    /\ comp = "skills" /\ pc = "call"
    /\ \E oh \in IterationOrders(text, cfg.hard), os \in IterationOrders(text, cfg.soft) :
          LET r == extract_skills(text, cfg, oh, os)
          IN  /\ skill_data' = r.data
              /\ hard_skills' = r.hard
              /\ soft_skills' = r.soft
    /\ pc' = "done"
    /\ UNCHANGED <<comp, text, cfg, tool_data, top_tools>>
    /\ UNCHANGED <<varsYears, varsLang, varsDocs, varsRequest>>

ExtractTopToolsCall ==
    /\ comp = "tools" /\ pc = "call"
    /\ \E o \in IterationOrders(text, cfg.tools) :
          LET r == extract_top_tools(text, cfg, o)
          IN  /\ tool_data' = r.data
              /\ top_tools' = r.tools
    /\ pc' = "done"
    /\ UNCHANGED <<comp, text, cfg, skill_data, hard_skills, soft_skills>>
    /\ UNCHANGED <<varsYears, varsLang, varsDocs, varsRequest>>

----------------------------------------------------------------------------
(* language_extractor.py                                                   *)
(*                                                                         *)
(* A line of the document is abstracted to                                 *)
(*   head  : "lang" if _SECTION_PATTERN matches the line, "other" if the   *)
(*           next-section pattern of _find_language_section matches it,    *)
(*           else "none";                                                  *)
(*   langs : the keys of _KNOWN_LANGUAGES contained in the line, in the    *)
(*           order of that dict, each with its canonical name and whether  *)
(*           it stands there as a whole word;                              *)
(*   cefr  : the first match of _CEFR_PATTERN, lower-cased, or "none";     *)
(*   kw    : the longest key of LANGUAGE_LEVEL_MAP contained in the line   *)
(*           (first in dict order among equally long ones), or "none".     *)

TopLanguages == 3       \* languages[:3]

LangLine(head, langs, cefr, kw) == [head |-> head, langs |-> langs, cefr |-> cefr, kw |-> kw]

\* LANGUAGE_LEVEL_MAP.get(key, default), in tenths
LanguageLevel(key, default) ==
    CASE key \in {"native", "mother tongue", "langue maternelle",
                  "bilingue", "bilingual", "c2"} -> 50
      [] key \in {"full professional proficiency"} -> 45
      [] key \in {"fluent", "couramment", "courant",
                  "professional proficiency", "c1"} -> 40
      [] key \in {"b2", "upper intermediate", "intermédiaire avancé"} -> 35
      [] key \in {"intermediate", "intermédiaire", "b1"} -> 30
      [] key \in {"basic", "basique", "notions", "scolaire", "a2", "elementary"} -> 20
      [] key \in {"beginner", "débutant", "a1"} -> 10
      [] OTHER -> default

Label(txt, style) == [text |-> txt, style |-> style]

\* the detection that looks for a keyword before a CEFR code
detect_level_KeywordFirst(line) ==
    IF line.kw # "none"
    THEN [level |-> LanguageLevel(line.kw, 0), label |-> Label(line.kw, "title"),
          confidence |-> 85]
    ELSE IF line.cefr # "none"
    THEN [level |-> LanguageLevel(line.cefr, 30), label |-> Label(line.cefr, "upper"),
          confidence |-> 95]
    ELSE [level |-> 0, label |-> Label("Inconnu", "plain"), confidence |-> 30]

\* _detect_level(context)
detect_level(line) ==
    IF line.cefr # "none"
    THEN [level |-> LanguageLevel(line.cefr, 30), label |-> Label(line.cefr, "upper"),
          confidence |-> 95]
    ELSE IF line.kw # "none"
    THEN [level |-> LanguageLevel(line.kw, 0), label |-> Label(line.kw, "title"),
          confidence |-> 85]
    ELSE [level |-> 0, label |-> Label("Inconnu", "plain"), confidence |-> 30]

\* a line that is empty after strip() carries nothing
IsBlankLangLine(line) ==
    line.head = "none" /\ line.langs = <<>> /\ line.cefr = "none" /\ line.kw = "none"

\* _find_language_section(text): [found, lines]; the span starts after the
\* first heading and ends before the next other heading
find_language_section(txt) ==
    LET heads == {k \in 1..Len(txt) : txt[k].head = "lang"}
    IN  IF heads = {} THEN [found |-> FALSE, lines |-> <<>>]
        ELSE LET h == CHOOSE k \in heads : \A j \in heads : k <= j
                 nexts == {k \in (h + 1)..Len(txt) : txt[k].head = "other"}
                 e == IF nexts = {} THEN Len(txt) + 1
                      ELSE CHOOSE k \in nexts : \A j \in nexts : k <= j
             IN  [found |-> TRUE, lines |-> SubSeq(txt, h + 1, e - 1)]

LangIndex(found, name) ==
    IF \E j \in 1..Len(found) : found[j].name = name
    THEN CHOOSE j \in 1..Len(found) : found[j].name = name
    ELSE 0

\* the body of `if lang_key in line_lower:` for one key of the line
register_language(found, line, hit) ==
    IF ~hit.word THEN found                \* no \b...\b match: continue
    ELSE LET d == detect_level(line)
             pos == LangIndex(found, hit.name)
         IN  IF pos # 0
             THEN IF d.level > found[pos].level
                  THEN [found EXCEPT ![pos] =
                           [name |-> hit.name, level |-> d.level, level_label |-> d.label,
                            evidence |-> line, confidence |-> d.confidence]]
                  ELSE found
             ELSE Append(found,
                      [name |-> hit.name,
                       level |-> IF d.level > 0 THEN d.level ELSE 25,
                       level_label |-> IF d.level > 0 THEN d.label
                                       ELSE Label("Non spécifié", "plain"),
                       evidence |-> line,
                       confidence |-> IF d.level > 0 THEN d.confidence ELSE 30])

RECURSIVE RegisterHits(_, _, _)
RegisterHits(found, line, hits) ==
    IF hits = <<>> THEN found
    ELSE RegisterHits(register_language(found, line, Head(hits)), line, Tail(hits))

RECURSIVE ScanLanguageLines(_, _)
\* `for line in search_text.split("\n")`
ScanLanguageLines(found, lines) ==
    IF lines = <<>> THEN found
    ELSE ScanLanguageLines(RegisterHits(found, Head(lines), Head(lines).langs), Tail(lines))

InsertByLevelDesc(s, x) ==
    LET n == Cardinality({k \in 1..Len(s) : s[k].level >= x.level})
    IN  SubSeq(s, 1, n) \o <<x>> \o SubSeq(s, n + 1, Len(s))

RECURSIVE SortByLevelDesc(_)
\* sorted(found_languages.values(), key=lambda l: l.level, reverse=True)
SortByLevelDesc(s) ==
    IF s = <<>> THEN <<>>
    ELSE InsertByLevelDesc(SortByLevelDesc(Front(s)), Last(s))

\* the lines extract_languages scans: the section, or the whole text when the
\* section is empty
LanguageSearchText(txt) ==
    LET section == find_language_section(txt).lines
    IN  IF \E k \in 1..Len(section) : ~IsBlankLangLine(section[k])
        THEN section ELSE txt

\* extract_languages(text)
extract_languages(txt) ==
    LET found == ScanLanguageLines(<<>>, LanguageSearchText(txt))
    IN  [found |-> found, languages |-> Take(SortByLevelDesc(found), TopLanguages)]

ExtractLanguagesCall ==
    /\ comp = "languages" /\ pc = "call"
    /\ LET r == extract_languages(lang_text)
       IN  /\ found_languages' = r.found
           /\ languages' = r.languages
    /\ pc' = "done"
    /\ UNCHANGED <<comp, lang_text>>
    /\ UNCHANGED <<varsYears, varsSkills, varsDocs, varsRequest>>

----------------------------------------------------------------------------
(* education_extractor.py                                                  *)
(*                                                                         *)
(* A line of the document is abstracted to the outcome of each pattern the *)
(* extractor applies to it:                                                *)
(*   id          : which line it is (its text)                             *)
(*   head_edu    : _SECTION_HEADING matches the line                       *)
(*   head_next   : _NEXT_SECTION_HEADING matches the line                  *)
(*   exclude     : _EXCLUDE_KEYWORDS matches                               *)
(*   date_range  : _DATE_RANGE_LINE matches                                *)
(*   kw          : _DEGREE_KEYWORDS matches (whole word)                   *)
(*   level       : highest DEGREE_LEVELS value of a key contained in the   *)
(*                 line (substring), 0 if none                             *)
(*   years       : _YEAR_PATTERN.findall, in order                         *)
(*   school      : _SCHOOL_KEYWORDS matches                                *)
(*   in_progress : (en cours|in progress|ongoing|current) matches          *)
(* A text made of several lines joined by " " has the features of its      *)
(* lines (no pattern above matches across a line break other than the      *)
(* two-word "en cours" / "in progress").                                   *)

EduLine(id, head_edu, head_next, exclude, date_range, kw, level, years, school, in_progress) ==
    [id |-> id, head_edu |-> head_edu, head_next |-> head_next, exclude |-> exclude,
     date_range |-> date_range, kw |-> kw, level |-> level, years |-> years,
     school |-> school, in_progress |-> in_progress]

\* DEGREE_LEVEL_LABELS.get(best_level, "Inconnu"), by level number
DegreeLevelLabel(level) ==
    CASE level = 8 -> "Bac+8 / Doctorat"
      [] level = 7 -> "Bac+5 / Master-Ingénieur"
      [] level = 6 -> "Bac+3 / Licence"
      [] level = 5 -> "Bac+2 / DUT-BTS"
      [] level = 4 -> "Baccalauréat"
      [] OTHER -> "Inconnu"

\* max(...) of a set of naturals, 0 for the empty one
MaxOfSet(S) == IF S = {} THEN 0 ELSE CHOOSE x \in S : \A y \in S : y <= x

\* _determine_degree_level(degree_text): (best_level, label)
determine_degree_level(degree_text) ==
    LET best_level == MaxOfSet({degree_text[k].level : k \in 1..Len(degree_text)})
    IN  [level |-> best_level, label |-> DegreeLevelLabel(best_level)]

\* _find_education_section(text).  The heading match starts at the line
\* break before the heading line unless that line is the first one, so the
\* section starts AT the heading line in the first case and after it in the
\* second (text.index("\n", m.start()) + 1).
find_education_section(txt) ==
    LET heads == {k \in 1..Len(txt) : txt[k].head_edu}
    IN  IF heads = {} THEN <<>>
        ELSE LET h == CHOOSE k \in heads : \A j \in heads : k <= j
                 start == IF h = 1 THEN 2 ELSE h
                 nexts == {k \in start..Len(txt) : txt[k].head_next}
                 e == IF nexts = {} THEN Len(txt) + 1
                      ELSE CHOOSE k \in nexts : \A j \in nexts : k <= j
             IN  SubSeq(txt, start, e - 1)

\* one round of `for line in lines:` in _extract_entries_from_section; the
\* state is the pair (entries, current_entry), current_entry a list of 0 or 1
EntryStep_SchoolOverwritten(st, line) ==
    IF line.exclude THEN st
    ELSE IF line.date_range /\ ~line.kw THEN st
    ELSE IF line.kw \/ (line.years # <<>> /\ ~line.date_range)
    THEN [entries |-> st.entries \o st.current,
          current |-> <<[degree |-> <<line>>, school |-> <<>>,
                         years |-> line.years, evidence |-> <<line>>]>>]
    ELSE IF st.current # <<>>
    THEN LET cur == st.current[1]
         IN  IF line.school \/ (cur.school = <<>> /\ line.years = <<>>)
             THEN [st EXCEPT !.current =
                      <<[cur EXCEPT !.school = <<line>>,
                                    !.evidence = Append(cur.evidence, line)]>>]
             ELSE [st EXCEPT !.current =
                      <<[cur EXCEPT !.degree = Append(cur.degree, line),
                                    !.evidence = Append(cur.evidence, line)]>>]
    ELSE st

EntryStep(st, line) ==
    IF line.exclude THEN st
    ELSE IF line.date_range /\ ~line.kw THEN st
    ELSE IF line.kw \/ (line.years # <<>> /\ ~line.date_range)
    THEN [entries |-> st.entries \o st.current,
          current |-> <<[degree |-> <<line>>, school |-> <<>>,
                         years |-> line.years, evidence |-> <<line>>]>>]
    ELSE IF st.current # <<>>
    THEN LET cur == st.current[1]
         IN  IF (line.school /\ cur.school = <<>>)
                \/ (cur.school = <<>> /\ line.years = <<>>)
             THEN [st EXCEPT !.current =
                      <<[cur EXCEPT !.school = <<line>>,
                                    !.evidence = Append(cur.evidence, line)]>>]
             ELSE [st EXCEPT !.current =
                      <<[cur EXCEPT !.degree = Append(cur.degree, line),
                                    !.evidence = Append(cur.evidence, line)]>>]
    ELSE st

RECURSIVE EntryLoop(_, _)
EntryLoop(st, lines) ==
    IF lines = <<>> THEN st ELSE EntryLoop(EntryStep(st, Head(lines)), Tail(lines))

\* _extract_entries_from_section(section)
extract_entries_from_section(section) ==
    LET st == EntryLoop([entries |-> <<>>, current |-> <<>>], section)
    IN  st.entries \o st.current

\* confidence = 0.5, +0.25 with a year, +0.25 with a degree keyword
EducationConfidence(year, degree_text) ==
    50 + (IF year # 0 THEN 25 ELSE 0)
       + (IF \E k \in 1..Len(degree_text) : degree_text[k].kw THEN 25 ELSE 0)

\* the body of `for entry in raw_entries:` -- year 0 stands for None,
\* degree_level "" for None, school <<>> for None
EducationOf(entry) ==
    LET year == MaxOfSet(Range(entry.years))        \* max(years) if years else None
        lvl == determine_degree_level(entry.degree)
    IN  [year |-> year,
         degree |-> entry.degree,
         school |-> entry.school,
         degree_level |-> IF lvl.level > 0 THEN lvl.label ELSE "",
         status |-> IF \E k \in 1..Len(entry.degree) : entry.degree[k].in_progress
                    THEN "en_cours" ELSE "obtained",
         evidence |-> entry.evidence,
         confidence |-> EducationConfidence(year, entry.degree)]

\* extract_educations(text): the section, or the whole text when the
\* section is empty
extract_educations(txt) ==
    LET section == find_education_section(txt)
        raw_entries == extract_entries_from_section(IF section = <<>> THEN txt ELSE section)
    IN  [k \in 1..Len(raw_entries) |-> EducationOf(raw_entries[k])]

\* the key that ranks by year before level
SortKey_YearFirst(edu) == edu.year * 10 + determine_degree_level(edu.degree).level

\* _sort_key(edu) of determine_last_degree, the pair (level_num, edu.year or 0)
\* as one number: years have at most four digits
SortKey(edu) == determine_degree_level(edu.degree).level * 10000 + edu.year

\* determine_last_degree(educations): <<>> for None; max() keeps the first
\* of the entries with the greatest key
determine_last_degree(edus) ==
    IF edus = <<>> THEN <<>>
    ELSE LET b == CHOOSE k \in 1..Len(edus) :
                     /\ \A j \in 1..Len(edus) : SortKey(edus[j]) <= SortKey(edus[k])
                     /\ \A j \in 1..(k - 1) : SortKey(edus[j]) < SortKey(edus[k])
             best == edus[b]
             lvl == determine_degree_level(best.degree)
         IN  <<[degree |-> best.degree,
                level |-> IF lvl.level > 0 THEN lvl.label ELSE "",
                school |-> best.school,
                year |-> best.year,
                confidence |-> best.confidence]>>

----------------------------------------------------------------------------
(* experience_extractor.py                                                 *)
(*                                                                         *)
(* A block (one element of _split_into_experience_blocks) is abstracted to *)
(*   id        : which block it is (its text)                              *)
(*   range     : _DATE_RANGE_PATTERN.search(block) succeeds                *)
(*   start     : group(1) of the range, or the first _DATE_PATTERN match   *)
(*               when there is no range; NullStr when neither              *)
(*   end       : group(3) of the range, NullStr without a range            *)
(*   parts     : number of non-empty "|" parts left on the date line once  *)
(*               the range is removed (0 when no line among the first five *)
(*               holds the range)                                          *)
(*   heading   : one of the first four lines is usable as position         *)
(*   at        : one of the first six lines matches \b(at|chez|@)\s+(.+)    *)
(*   team_size : <<>> when _TEAM_SIZE_PATTERN does not match the block,    *)
(*               else one record: `matched` the value of the digits the    *)
(*               pattern captures, `written` the number the text states    *)
(*               there ("10 000 personnes": matched 0, written 10000)      *)

Block(id, range, start, end, parts, heading, at, team_size) ==
    [id |-> id, range |-> range, start |-> start, end |-> end, parts |-> parts,
     heading |-> heading, at |-> at, team_size |-> team_size]

\* 0.5, +0.2 start date, +0.2 position, +0.1 company; round(.., 2)
ExperienceConfidence(start_date, position, company) ==
    50 + (IF start_date # NullStr THEN 20 ELSE 0)
       + (IF position # "" THEN 20 ELSE 0)
       + (IF company # "" THEN 10 ELSE 0)

\* _parse_experience_block(block); "" stands for None in position and
\* company, which otherwise name where the value was taken from
parse_experience_block(block) ==
    LET start_date == block.start
        end_date == IF block.range
                    THEN (IF block.end.form = "present" THEN PresentStr ELSE block.end)
                    ELSE NullStr
        position == IF block.parts >= 1 THEN "date_line_part_1"
                    ELSE IF block.heading THEN "first_lines" ELSE ""
        company == IF block.parts >= 2 THEN "date_line_part_2"
                   ELSE IF block.at THEN "at_match" ELSE ""
    IN  [start_date |-> start_date,
         end_date |-> end_date,
         position |-> position,
         company |-> company,
         team_size |-> IF block.team_size = <<>> THEN <<>>      \* None
                       ELSE <<block.team_size[1].matched>>,     \* int(size_str)
         evidence |-> block.id,
         confidence |-> ExperienceConfidence(start_date, position, company)]

\* extract_experiences(text), from the blocks of the section on
extract_experiences(blocks) ==
    [k \in 1..Len(blocks) |-> parse_experience_block(blocks[k])]

(* _split_into_experience_blocks works on characters.  Here the section is *)
(* a list of tokens, one position each: "w" a word, "nl" a line break,     *)
(* "range" a match of _DATE_RANGE_PATTERN, "date" a match of _DATE_PATTERN *)
(* that is not part of a range.  A block is the text the function returns  *)
(* together with the slice section[start:stop] it was cut from (positions  *)
(* from 1, stop excluded).                                                 *)

Tokens == {"w", "nl", "range", "date"}

\* the i-th element of a set of positions, in increasing order
NthOf(S, i) == CHOOSE x \in S : Cardinality({y \in S : y < x}) = i - 1

\* matches of the range pattern, else of the date pattern (lines 124-126)
AnchorPositions(sec) ==
    LET ranges == {p \in 1..Len(sec) : sec[p] = "range"}
    IN  IF ranges # {} THEN ranges ELSE {p \in 1..Len(sec) : sec[p] = "date"}

\* section.rfind("\n", 0, pos), 0 when there is none
rfind_newline(sec, pos) == MaxOfSet({j \in 1..(pos - 1) : sec[j] = "nl"})

\* str.strip()
Strip(s) ==
    LET keep == {j \in 1..Len(s) : s[j] # "nl"}
    IN  IF keep = {} THEN <<>>
        ELSE SubSeq(s, NthOf(keep, 1), MaxOfSet(keep))

SplitBlock(sec, start, stop) ==
    [start |-> start, stop |-> stop, text |-> Strip(SubSeq(sec, start, stop - 1))]

\* _split_into_experience_blocks(section)
split_into_experience_blocks(sec) ==
    LET matches == AnchorPositions(sec)
        n == Cardinality(matches)
        start(i) == LET line_start == rfind_newline(sec, NthOf(matches, i))
                    IN  IF line_start >= 1 THEN line_start + 1 ELSE NthOf(matches, i)
        stop(i) == IF i + 1 <= n
                   THEN LET next_start == NthOf(matches, i + 1)
                            next_line_start == rfind_newline(sec, next_start)
                        IN  IF next_line_start > start(i) THEN next_line_start
                            ELSE next_start
                   ELSE Len(sec) + 1
        cut == [i \in 1..n |-> SplitBlock(sec, start(i), stop(i))]
    IN  IF n = 0
        THEN IF Strip(sec) # <<>>
             THEN <<[start |-> 1, stop |-> Len(sec) + 1, text |-> sec]>>
             ELSE <<>>
        ELSE SelectSeq(cut, LAMBDA b : b.text # <<>>)

----------------------------------------------------------------------------
(* name_extractor.py                                                       *)
(*                                                                         *)
(* A line of the document is abstracted to                                 *)
(*   text  : the line, stripped ("" for a blank line)                      *)
(*   valid : _is_valid_name_line(line)                                     *)
(*   upper : line.isupper()                                                *)
(*   title : line.title()                                                  *)

NameLine(txt, valid, upper, title) ==
    [text |-> txt, valid |-> valid, upper |-> upper, title |-> title]

NameScanLines == 20     \* lines[:20]

\* the name returned verbatim
normalize_name_Verbatim(line) == line.text

\* _normalize_name(name): Title Case when the line is all upper case
normalize_name(line) == IF line.upper THEN line.title ELSE line.text

\* extract_candidate_name(text): name "" stands for None; confidence by the
\* position of the first valid line among the non-empty ones (0-based)
extract_candidate_name(txt) ==
    LET lines == SelectSeq(txt, LAMBDA l : l.text # "")
        candidates == {i \in 1..Min(Len(lines), NameScanLines) : lines[i].valid}
    IN  IF candidates = {} THEN [name |-> "", confidence |-> 0]
        ELSE LET first == CHOOSE i \in candidates : \A j \in candidates : i <= j
                 best_pos == first - 1
             IN  [name |-> normalize_name(lines[first]),
                  confidence |-> IF best_pos <= 3 THEN 95
                                 ELSE IF best_pos <= 7 THEN 80 ELSE 65]

----------------------------------------------------------------------------
(* main.py: the enrichment by the LLM collaborator                         *)
(*                                                                         *)
(* What llm_service.enhance_* returns is json.loads of the model's answer, *)
(* or None.  A response is abstracted to                                   *)
(*   top   : "none" (None), "empty_dict" ({}), "dict" (a non-empty dict),  *)
(*           "not_dict" (any other truthy JSON value)                      *)
(*   key   : what the dict holds under "educations" / "experiences":       *)
(*           "absent", "null", "zero", "empty_list", "empty_string"        *)
(*           (all falsy), "number" (a truthy number or true), "string",    *)
(*           "dict" (non-empty), "list" (non-empty)                        *)
(*   items : the elements of that list                                     *)

Response(top, key, items) == [top |-> top, key |-> key, items |-> items]

\* an element of the "educations" list: kind "dict" or "other"; degree
\* "absent", "bad" (null or not a string) or a level number as text;
\* year 0 (absent or null), -1 (not an integer) or the year; evidence
\* "absent", "null" or "str"
EduItem(kind, degree, year, evidence) ==
    [kind |-> kind, degree |-> degree, year |-> year, evidence |-> evidence]

\* the text of a string given by the collaborator, as a line of the
\* education extractor: only its degree level is of interest
LLMLine(id, level) ==
    EduLine(id, FALSE, FALSE, FALSE, FALSE, level > 0, level, <<>>, FALSE, FALSE)

LLMDegreeText(degree) ==
    CASE degree = "absent" -> <<>>                  \* e.get("degree", "")
      [] degree = "Master" -> <<LLMLine(101, 7)>>
      [] degree = "Licence" -> <<LLMLine(102, 6)>>
      [] OTHER -> <<LLMLine(103, 0)>>

\* the try-block around EduModel(...): <<>> when it raises (e.get on a
\* non-dict, None[:500], pydantic ValidationError), else the entity
EduModelOf(e) ==
    IF e.kind # "dict" THEN <<>>
    ELSE IF e.evidence = "null" THEN <<>>
    ELSE IF e.degree = "bad" \/ e.year < 0 THEN <<>>
    ELSE <<[year |-> e.year,
            degree |-> LLMDegreeText(e.degree),
            school |-> <<>>,
            degree_level |-> "",
            status |-> "obtained",
            evidence |-> IF e.evidence = "str" THEN <<LLMLine(100, 0)>> ELSE <<>>,
            confidence |-> 90]>>

\* an element of the "experiences" list: team_size 0 (absent or null),
\* -1 (not an integer) or the number
ExpItem(kind, start_date, position, team_size, evidence) ==
    [kind |-> kind, start_date |-> start_date, position |-> position,
     team_size |-> team_size, evidence |-> evidence]

\* the try-block around ExpModel(...)
ExpModelOf(e) ==
    IF e.kind # "dict" THEN <<>>
    ELSE IF e.evidence = "null" THEN <<>>
    ELSE IF e.team_size < 0 THEN <<>>
    ELSE <<[start_date |-> e.start_date,
            end_date |-> NullStr,
            position |-> e.position,
            company |-> "",
            team_size |-> IF e.team_size = 0 THEN <<>> ELSE <<e.team_size>>,
            evidence |-> IF e.evidence = "str" THEN 100 ELSE 0,
            confidence |-> 90]>>

RECURSIVE BuildEducations(_)
\* `for e in llm_edu["educations"]: try: llm_educations.append(...)`
BuildEducations(items) ==
    IF items = <<>> THEN <<>>
    ELSE EduModelOf(Head(items)) \o BuildEducations(Tail(items))

RECURSIVE BuildExperiences(_)
BuildExperiences(items) ==
    IF items = <<>> THEN <<>>
    ELSE ExpModelOf(Head(items)) \o BuildExperiences(Tail(items))

\* `if llm_edu and llm_edu.get("educations"):` -- "skip" when the test is
\* false, "raise" when it or the `for` statement raises, else "loop"
EnrichOutcome(resp) ==
    CASE resp.top \in {"none", "empty_dict"} -> "skip"
      [] resp.top = "not_dict" -> "raise"     \* AttributeError: no attribute 'get'
      [] resp.key \in {"absent", "null", "zero", "empty_list", "empty_string"} -> "skip"
      [] resp.key = "number" -> "raise"       \* TypeError: object is not iterable
      [] OTHER -> "loop"

\* the exception of the "raise" outcome
EnrichException(resp) ==
    IF resp.top = "not_dict" THEN "AttributeError" ELSE "TypeError"

\* what `for e in ...` iterates over: the elements of a list, the
\* characters of a string, the keys of a dict
IteratedItems(resp) ==
    IF resp.key = "list" THEN resp.items
    ELSE <<[kind |-> "other"]>>

\* the replacement that keeps the heuristic entities and adds the others
ReplaceIfAny_Merge(current, llm_list) == current \o llm_list

\* `if llm_educations: educations = llm_educations`
ReplaceIfAny(current, llm_list) ==
    IF llm_list # <<>> THEN llm_list ELSE current

\* the mean rounded to two decimals.  The sum is taken in binary floating
\* point, so a mean that is an exact tie in decimal can end on either side.
RoundedMean(sum, n) ==
    IF 2 * (sum % n) = n THEN {sum \div n, sum \div n + 1}
    ELSE {RoundHalfEven(sum, n)}

RECURSIVE SumConfidence(_)
SumConfidence(list) ==
    IF list = <<>> THEN 0 ELSE Head(list).confidence + SumConfidence(Tail(list))

\* overall = round(sum(confidences) / len(confidences), 2) if confidences else 0.5
OverallConfidence(edus, exps, langs) ==
    LET n == Len(edus) + Len(exps) + Len(langs)
    IN  IF n = 0 THEN {50}
        ELSE RoundedMean(SumConfidence(edus) + SumConfidence(exps) + SumConfidence(langs), n)

\* the gap line appended when a list (or optional value) is empty
Gap(list, line) == IF list = <<>> THEN <<line>> ELSE <<>>

----------------------------------------------------------------------------
(* Inputs                                                                  *)

MaxExps == 2            \* longest experience list given to the calculator
MaxIntervals == 3       \* longest list given to _merge_intervals directly
MaxDay == 3             \* dates 0..MaxDay in those lists

Exp(s, e, r) == [start_date |-> s, end_date |-> e, position |-> r[1],
                 company |-> "none", mission_summary |-> r[2]]

ExpPool ==
    {Exp(s, e, r) :
        s \in {DateStr("ym", 2018, 1), DateStr("ym", 2019, 6), NullStr,
               DateStr("junk", 0, 0)},
        e \in {DateStr("ym", 2020, 1), DateStr("ym", 2021, 1),
               DateStr("mon", 2018, 6), PresentStr, NullStr},
        r \in {<<"plain", "none">>, <<"keyword", "none">>, <<"plain", "keyword">>}}

DayIntervals == {<<s, e>> : s \in 0..MaxDay, e \in 0..MaxDay} \
                {<<s, e>> \in (0..MaxDay) \X (0..MaxDay) : s > e}

\* ---- documents for the skill and tool tagger ----
MaxLines == 2           \* longest document, in lines

\* the lines of the documents whose length is bounded by MaxLines mention
\* the terms 1..3
LineChoices ==
    {Line(h, FALSE, <<>>) : h \in {"experience", "certifications"}}
        \cup {Line("none", i, r) : i \in BOOLEAN, r \in {<<1>>, <<2, 3>>, <<1, 1, 1, 1, 1>>}}
        \cup {LongLine("none", FALSE, <<1>>)}

\* documents with a line that mentions every term, so that more than TopN
\* candidates compete
AllTerms == [k \in 1..NumTerms |-> k]

WideTexts ==
    { <<Line("none", FALSE, AllTerms)>>,
      <<Line("none", FALSE, AllTerms), Line("none", FALSE, <<1>>)>>,
      <<Line("none", TRUE, <<2, 3>>), Line("none", FALSE, AllTerms)>>,
      <<Line("experience", FALSE, <<>>), Line("none", FALSE, AllTerms)>>,
      <<Line("none", TRUE, AllTerms), Line("none", FALSE, AllTerms),
        Line("none", FALSE, <<1, 1, 1, 1, 1>>)>>,
      \* one term and its alias on five different lines, one of them long
      <<Line("none", FALSE, <<1>>), LongLine("none", FALSE, <<1>>),
        Line("certifications", FALSE, <<>>), Line("none", TRUE, <<2, 3>>),
        Line("none", FALSE, <<1, 1, 1, 1, 1>>), Line("none", TRUE, <<1>>)>> }

Texts == SeqsUpTo(LineChoices, MaxLines) \cup WideTexts

NoAlias == [t \in Terms |-> 0]

Tables(hard, soft, tools, alias) ==
    [hard |-> hard, soft |-> soft, tools |-> tools, alias |-> alias]

\* SKILL_ALIASES and the taxonomies in the shape config.py gives them:
\* disjoint taxonomies, aliases inside a taxonomy
ConfigTables ==
    Tables({3, 4}, {5}, {1, 2, 6}, [NoAlias EXCEPT ![2] = 1, ![4] = 3, ![6] = 6])

\* taxonomy contents: one category each, a shape like config.py (disjoint
\* taxonomies, aliases inside a taxonomy), and taxonomies that overlap
TableChoices ==
    { Tables(Terms, {}, {}, NoAlias),
      Tables({}, Terms, {}, NoAlias),
      Tables({}, {}, Terms, NoAlias),
      ConfigTables,
      Tables({1, 3}, {}, {1, 2, 4}, [NoAlias EXCEPT ![2] = 1]) }

BlankSkills ==
    /\ text = <<>> /\ cfg = Tables({}, {}, {}, NoAlias)
    /\ skill_data = <<>> /\ tool_data = <<>>
    /\ hard_skills = <<>> /\ soft_skills = <<>> /\ top_tools = <<>>

\* ---- documents for the language extractor ----
MaxLangLines == 2       \* longest document, in lines

Hit(name) == [name |-> name, word |-> TRUE]

LangLineChoices ==
    { LangLine("lang", <<>>, "none", "none"),                 \* "Langues"
      LangLine("other", <<>>, "none", "none"),                \* "Formation"
      LangLine("none", <<[name |-> "Anglais", word |-> FALSE]>>, "c2", "none"),
      LangLine("none", <<Hit("Français"), Hit("Anglais"), Hit("Arabe"), Hit("Espagnol")>>,
               "none", "none"),
      LangLine("none", <<Hit("Français"), Hit("Anglais"), Hit("Arabe"), Hit("Espagnol")>>,
               "none", "fluent") }
    \cup { LangLine("none", <<Hit(n)>>, l[1], l[2]) :
              n \in {"Anglais", "Arabe"},
              l \in { <<"b2", "none">>,                  \* "Anglais: B2"
                      <<"none", "native">>,
                      <<"a2", "fluent">>,
                      <<"none", "none">> } }

\* ---- documents for the education extractor ----
MaxEduLines == 3        \* longest document, in lines

\* the lines documents are made of, by number:
\*   1 a heading ("Formation")          2 a next-section heading ("Expériences")
\*   3 "Master ... 2021"                4 "Licence 2017 - 2019" (a date range)
\*   5 a school                         6 a bare year
\*   7 a date range without degree      8 a certification
\*   9 a degree in progress, no year   10 any other line
\*  11 a heading line that names a degree and a year ("Diplôme d'ingénieur 2020")
\*  12 a degree with a year to come ("Licence ... 2030")
EduLinePool ==
    << \* section heading
       EduLine(1, TRUE, FALSE, FALSE, FALSE, FALSE, 0, <<>>, FALSE, FALSE),
       \* heading of the next section
       EduLine(2, FALSE, TRUE, FALSE, FALSE, FALSE, 0, <<>>, FALSE, FALSE),
       \* master with a year
       EduLine(3, FALSE, FALSE, FALSE, FALSE, TRUE, 7, <<2021>>, FALSE, FALSE),
       \* licence with a date range
       EduLine(4, FALSE, FALSE, FALSE, TRUE, TRUE, 6, <<2017, 2019>>, FALSE, FALSE),
       \* school name
       EduLine(5, FALSE, FALSE, FALSE, FALSE, FALSE, 0, <<>>, TRUE, FALSE),
       \* a year alone
       EduLine(6, FALSE, FALSE, FALSE, FALSE, FALSE, 0, <<2015>>, FALSE, FALSE),
       \* a date range alone
       EduLine(7, FALSE, FALSE, FALSE, TRUE, FALSE, 0, <<2019, 2021>>, FALSE, FALSE),
       \* certification (excluded)
       EduLine(8, FALSE, FALSE, TRUE, FALSE, FALSE, 0, <<2022>>, FALSE, FALSE),
       \* master in progress
       EduLine(9, FALSE, FALSE, FALSE, FALSE, TRUE, 7, <<>>, FALSE, TRUE),
       \* nothing recognised
       EduLine(10, FALSE, FALSE, FALSE, FALSE, FALSE, 0, <<>>, FALSE, FALSE),
       \* heading and degree on one line
       EduLine(11, TRUE, FALSE, FALSE, FALSE, TRUE, 7, <<2020>>, FALSE, FALSE),
       \* licence with a year to come
       EduLine(12, FALSE, FALSE, FALSE, FALSE, TRUE, 6, <<2030>>, FALSE, FALSE) >>

\* a one-line document whose line is a heading followed by content is left
\* out: its section is the rest of that line, which no line record describes
EduTexts ==
    {t \in SeqsUpTo(Range(EduLinePool), MaxEduLines) : ~(Len(t) = 1 /\ t[1] = EduLinePool[11])}

\* ---- blocks for the experience extractor ----
MaxBlocks == 2          \* most blocks in a document
MaxSection == 5         \* longest section given to the splitter, in tokens

\* the blocks documents are made of, by number:
\*   1 range to present, "| position | company" on the date line
\*   2 range of years, position from the first lines, company from "chez ..."
\*   3 range, one part on the date line
\*   4 a single date and nothing usable as position
\*   5 no date at all (the whole section as one block)
\*   6 no date and nothing usable as position
BlockPool ==
    << \* date range, title | company | place
       Block(1, TRUE, DateStr("mon", 2020, 1), DateStr("present", 0, 0), 2, TRUE, FALSE, <<>>),
       \* bare years, title at company, team size
       Block(2, TRUE, DateStr("year", 2018, 0), DateStr("year", 2019, 0), 0, TRUE, TRUE,
             <<[matched |-> 5, written |-> 5]>>),
       \* date range, one part
       Block(3, TRUE, DateStr("ym", 2019, 6), DateStr("ym", 2021, 1), 1, TRUE, FALSE, <<>>),
       \* start year only
       Block(4, FALSE, DateStr("year", 2017, 0), NullStr, 0, FALSE, FALSE, <<>>),
       \* no date, heading line
       Block(5, FALSE, NullStr, NullStr, 0, TRUE, FALSE, <<>>),
       \* nothing recognised
       Block(6, FALSE, NullStr, NullStr, 0, FALSE, FALSE, <<>>),
       \* no date, "... un groupe de 10 000 personnes"
       Block(7, FALSE, NullStr, NullStr, 0, TRUE, FALSE,
             <<[matched |-> 0, written |-> 10000]>>),
       \* a range written backwards, "2021 - 2019 | ..."
       Block(8, TRUE, DateStr("year", 2021, 0), DateStr("year", 2019, 0), 1, TRUE, FALSE,
             <<>>) >>

\* ---- lists of Education entities, for determine_last_degree ----
MaxEdus == 3            \* longest list of educations

\* Education(year=..., degree=..., degree_level=...) as pydantic accepts it:
\* any degree text, any year or None (0), any stored level label or None ("").
\* The degree texts are "Bachelor" (111), "Master" (101), "Doctorat" (112)
\* and a text without any key of DEGREE_LEVELS (103).
EducationPool ==
    { [year |-> e[1], degree |-> <<LLMLine(e[2], e[3])>>, school |-> <<>>,
       degree_level |-> e[4], status |-> "obtained", evidence |-> <<>>,
       confidence |-> e[5]] :
         e \in { <<2019, 111, 6, "Bac+3 / Licence", 75>>,
                 <<2021, 101, 7, "Bac+5 / Master-Ingénieur", 100>>,
                 <<2023, 101, 7, "Bac+5 / Master-Ingénieur", 90>>,
                 <<0, 101, 7, "", 75>>,                       \* no year
                 <<2010, 112, 8, "Bac+3 / Licence", 90>>,     \* stored label is stale
                 <<2024, 103, 0, "Bac+8 / Doctorat", 90>> } } \* stored label is stale

\* ---- requests ----
MaxLLMItems == 2        \* longest list in a collaborator response

\* ---- documents for the name extractor ----
MaxLeadingLines == 21   \* most lines before the part that varies
MaxNameTail == 2        \* length of the part that varies

NameLinePool ==
    << NameLine("Jean Dupont", TRUE, FALSE, "Jean Dupont"),
       NameLine("JEAN DUPONT", TRUE, TRUE, "Jean Dupont"),
       NameLine("Marie CURIE", TRUE, FALSE, "Marie Curie"),
       NameLine("john@example.com", FALSE, FALSE, "John@Example.Com"),
       NameLine("CURRICULUM VITAE", FALSE, TRUE, "Curriculum Vitae"),
       NameLine("", FALSE, FALSE, "") >>

\* k lines that are no name, then up to MaxNameTail lines of any kind
NameTexts ==
    {[i \in 1..k |-> NameLinePool[4]] \o t :
        k \in 0..MaxLeadingLines, t \in SeqsUpTo(Range(NameLinePool), MaxNameTail)}

\* the first valid name line is line p
NameAt(p) == [i \in 1..p |-> IF i = p THEN NameLinePool[1] ELSE NameLinePool[4]]

Upload(pdf, has_text, scanned, photo, name_lines) ==
    [pdf |-> pdf, has_text |-> has_text, scanned |-> scanned, photo |-> photo,
     name_lines |-> name_lines]

NoUpload == Upload(FALSE, FALSE, FALSE, "", <<>>)

NotAsked == Response("not_asked", "", <<>>)

\* what the collaborator can return, for a pool of list elements
ResponsesOver(items) ==
    { Response("none", "", <<>>), Response("empty_dict", "", <<>>),
      Response("not_dict", "", <<>>) }
    \cup { Response("dict", k, <<>>) :
             k \in {"absent", "null", "zero", "empty_list", "empty_string",
                    "number", "string", "dict"} }
    \cup { Response("dict", "list", l) : l \in SeqsUpTo(items, MaxLLMItems) \ {<<>>} }

EduResponses ==
    ResponsesOver({ EduItem("dict", "Master", 2021, "str"),
                    EduItem("dict", "absent", 0, "absent"),
                    EduItem("dict", "bad", 2020, "str"),
                    EduItem("dict", "Licence", 2019, "null"),
                    EduItem("other", "", 0, "") })

ExpResponses ==
    ResponsesOver({ ExpItem("dict", DateStr("ym", 2020, 1), "llm_position", 4, "str"),
                    ExpItem("dict", NullStr, "", 0, "absent"),
                    ExpItem("dict", NullStr, "llm_position", -1, "str"),
                    ExpItem("dict", NullStr, "", 0, "null"),
                    ExpItem("other", NullStr, "", 0, "") })

\* a request: the upload, and the document as each extractor sees it
\* (education lines, experience blocks, language lines, skill lines)
Documents ==
    { \* not a PDF; a PDF without text, scanned or not
      <<Upload(FALSE, FALSE, FALSE, "", <<>>), <<>>, <<>>, <<>>, <<>> >>,
      <<Upload(TRUE, FALSE, TRUE, "", <<>>), <<>>, <<>>, <<>>, <<>> >>,
      <<Upload(TRUE, FALSE, FALSE, "", <<>>), <<>>, <<>>, <<>>, <<>> >>,
      \* a well-formed CV
      <<Upload(TRUE, TRUE, FALSE, "found", NameAt(1)),
          <<EduLinePool[1], EduLinePool[3], EduLinePool[5]>>,
          <<BlockPool[1], BlockPool[2]>>,
          <<LangLine("lang", <<>>, "none", "none"),
            LangLine("none", <<Hit("Anglais")>>, "b2", "none")>>,
          <<Line("experience", FALSE, <<>>), Line("none", TRUE, <<3, 1>>),
            Line("none", FALSE, <<1, 5, 3, 3, 3, 3>>)>> >>,
      \* a text in which nothing is recognised but the name
      <<Upload(TRUE, TRUE, FALSE, "raises", NameAt(5)),
          <<EduLinePool[10]>>, <<BlockPool[6]>>,
          <<LangLine("other", <<>>, "none", "none")>>,
          <<Line("none", FALSE, <<>>)>> >>,
      \* a CV with a late name line and ties everywhere
      <<Upload(TRUE, TRUE, FALSE, "not_found", NameAt(9)),
          <<EduLinePool[3], EduLinePool[4]>>, <<BlockPool[4]>>,
          <<LangLine("none", <<Hit("Français"), Hit("Anglais"), Hit("Arabe"),
                               Hit("Espagnol")>>, "none", "fluent")>>,
          <<Line("none", FALSE, <<3, 4, 5, 1, 1>>)>> >>,
      \* texts without a name line among the first twenty
      <<Upload(TRUE, TRUE, FALSE, "found", [i \in 1..3 |-> NameLinePool[4]]),
          <<EduLinePool[1], EduLinePool[3], EduLinePool[5]>>, <<BlockPool[1]>>,
          <<LangLine("none", <<Hit("Anglais")>>, "b2", "none")>>,
          <<Line("none", TRUE, <<3, 1>>)>> >>,
      <<Upload(TRUE, TRUE, FALSE, "not_found", NameAt(NameScanLines + 1)),
          <<EduLinePool[10]>>, <<BlockPool[5]>>,
          <<LangLine("other", <<>>, "none", "none")>>,
          <<Line("none", FALSE, <<>>)>> >> }

----------------------------------------------------------------------------
(* The extractors called on their own                                      *)

ExtractEducationsCall ==
    /\ comp = "educations" /\ pc = "call"
    /\ educations' = extract_educations(edu_text)
    /\ last_degree' = determine_last_degree(extract_educations(edu_text))
    /\ pc' = "done"
    /\ UNCHANGED <<comp, edu_text, exp_blocks, split_section, split_blocks, experiences, varsRequest>>
    /\ UNCHANGED <<varsYearsLocals, varsSkills, varsLang>>

\* extract_candidate_name(text) called on a text
ExtractNameCall ==
    /\ comp = "name" /\ pc = "call"
    /\ LET r == extract_candidate_name(upload.name_lines)
       IN  candidate_name' = r.name /\ name_confidence' = r.confidence
    /\ pc' = "done"
    /\ UNCHANGED <<comp, upload, llm_available, llm_edu, llm_exp, missing_info,
                   missing_info_bound, photo_result, heur_educations, heur_experiences,
                   overall, status, error>>
    /\ UNCHANGED <<varsDocs, varsYears, varsSkills, varsLang>>

\* determine_last_degree(educations) called on a list of entities
DetermineLastDegreeCall ==
    /\ comp = "last_degree" /\ pc = "call"
    /\ last_degree' = determine_last_degree(educations)
    /\ pc' = "done"
    /\ UNCHANGED <<comp, edu_text, exp_blocks, split_section, split_blocks, educations, experiences, varsRequest>>
    /\ UNCHANGED <<varsYearsLocals, varsSkills, varsLang>>

SplitCall ==
    /\ comp = "split" /\ pc = "call"
    /\ split_blocks' = split_into_experience_blocks(split_section)
    /\ pc' = "done"
    /\ UNCHANGED <<comp, edu_text, exp_blocks, split_section, educations, last_degree>>
    /\ UNCHANGED <<varsYears, varsSkills, varsLang, varsRequest>>

ExtractExperiencesCall ==
    /\ comp = "experiences" /\ pc = "call"
    /\ experiences' = extract_experiences(exp_blocks)
    /\ pc' = "done"
    /\ UNCHANGED <<comp, edu_text, exp_blocks, split_section, split_blocks, educations, last_degree, varsRequest>>
    /\ UNCHANGED <<varsYearsLocals, varsSkills, varsLang>>

----------------------------------------------------------------------------
(* main.py: extract_full                                                   *)

\* the request ends: HTTP status and, for 500, the exception behind it
Respond(code, exc) ==
    /\ status' = code
    /\ error' = exc
    /\ pc' = "done"

\* lines 109-131: the file name test, extract_pdf, clean_text
FullCheckUpload ==
    /\ comp = "full" /\ pc = "start"
    /\ IF ~upload.pdf THEN Respond(400, "")
       ELSE IF ~upload.has_text THEN Respond(422, "")
       ELSE /\ pc' = "name"
            /\ UNCHANGED <<status, error>>
    /\ UNCHANGED <<comp, upload, llm_available, llm_edu, llm_exp, candidate_name,
                   name_confidence, missing_info, missing_info_bound, photo_result,
                   heur_educations, heur_experiences, overall>>
    /\ UNCHANGED <<varsDocs, varsYears, varsSkills, varsLang>>

\* lines 135-138: the name, and the gap line for it.  missing_info is a
\* local of extract_full that is assigned at line 144 only: reading it here
\* raises UnboundLocalError, which the handler at 280 turns into HTTP 500
FullName ==
    /\ comp = "full" /\ pc = "name"
    /\ LET r == extract_candidate_name(upload.name_lines)
       IN  /\ candidate_name' = r.name
           /\ name_confidence' = r.confidence
           /\ IF r.name = ""
              THEN IF missing_info_bound
                   THEN /\ missing_info' = Append(missing_info, "Nom du candidat non détecté")
                        /\ pc' = "photo"
                        /\ UNCHANGED <<status, error>>
                   ELSE /\ Respond(500, "UnboundLocalError")
                        /\ UNCHANGED missing_info
              ELSE /\ pc' = "photo"
                   /\ UNCHANGED <<status, error, missing_info>>
    /\ UNCHANGED <<comp, upload, llm_available, llm_edu, llm_exp, missing_info_bound,
                   photo_result, heur_educations, heur_experiences, overall>>
    /\ UNCHANGED <<varsDocs, varsYears, varsSkills, varsLang>>

\* lines 144-154: missing_info = [], then the photo inside its own try
FullPhoto ==
    /\ comp = "full" /\ pc = "photo"
    /\ missing_info_bound' = TRUE
    /\ photo_result' = [found |-> upload.photo = "found"]
    /\ missing_info' = CASE upload.photo = "found" -> <<>>
                         [] upload.photo = "not_found" -> <<"Photo candidat non trouvée">>
                         [] OTHER -> <<"Erreur extraction photo">>
    /\ pc' = "heuristics"
    /\ UNCHANGED <<comp, upload, llm_available, llm_edu, llm_exp, candidate_name,
                   name_confidence, heur_educations, heur_experiences, overall,
                   status, error>>
    /\ UNCHANGED <<varsDocs, varsYears, varsSkills, varsLang>>

\* lines 156-186: the heuristic extractors and their gap lines
FullHeuristics ==
    /\ comp = "full" /\ pc = "heuristics"
    /\ \E oh \in IterationOrders(text, cfg.hard), os \in IterationOrders(text, cfg.soft),
          ot \in IterationOrders(text, cfg.tools) :
          LET edus == extract_educations(edu_text)
              last == determine_last_degree(edus)
              exps == extract_experiences(exp_blocks)
              lang == extract_languages(lang_text)
              sk == extract_skills(text, cfg, oh, os)
              tl == extract_top_tools(text, cfg, ot)
          IN  /\ educations' = edus
              /\ last_degree' = last
              /\ experiences' = exps
              /\ found_languages' = lang.found
              /\ languages' = lang.languages
              /\ skill_data' = sk.data
              /\ hard_skills' = sk.hard
              /\ soft_skills' = sk.soft
              /\ tool_data' = tl.data
              /\ top_tools' = tl.tools
              /\ heur_educations' = edus
              /\ heur_experiences' = exps
              /\ missing_info' = missing_info
                    \o Gap(edus, "Aucune formation détectée")
                    \o Gap(last, "Dernier diplôme non déterminé")
                    \o Gap(exps, "Aucune expérience détectée")
                    \o Gap(lang.languages, "Aucune langue détectée")
                    \o Gap(sk.hard, "Aucun hard skill détecté")
                    \o Gap(sk.soft, "Aucun soft skill détecté")
                    \o Gap(tl.tools, "Aucun outil maîtrisé détecté")
    /\ pc' = IF llm_available THEN "llm_edu" ELSE "overall"
    /\ UNCHANGED <<comp, upload, llm_available, llm_edu, llm_exp, candidate_name,
                   name_confidence, missing_info_bound, photo_result, overall,
                   status, error>>
    /\ UNCHANGED <<edu_text, exp_blocks, split_section, split_blocks, text, cfg, lang_text, varsYearsLocals>>

\* lines 192-214: the education enrichment
FullEnrichEducations ==
    /\ comp = "full" /\ pc = "llm_edu"
    /\ \E resp \in EduResponses :
          /\ llm_edu' = resp
          /\ CASE EnrichOutcome(resp) = "raise" ->
                    /\ Respond(500, EnrichException(resp))
                    /\ UNCHANGED <<educations, last_degree>>
               [] EnrichOutcome(resp) = "skip" ->
                    /\ pc' = "llm_exp"
                    /\ UNCHANGED <<educations, last_degree, status, error>>
               [] OTHER ->
                    LET llm_educations == BuildEducations(IteratedItems(resp))
                    IN  /\ educations' = ReplaceIfAny(educations, llm_educations)
                        /\ last_degree' = IF llm_educations # <<>>
                                          THEN determine_last_degree(llm_educations)
                                          ELSE last_degree
                        /\ pc' = "llm_exp"
                        /\ UNCHANGED <<status, error>>
    /\ UNCHANGED <<comp, upload, llm_available, llm_exp, candidate_name,
                   name_confidence, missing_info, missing_info_bound, photo_result,
                   heur_educations, heur_experiences, overall>>
    /\ UNCHANGED <<edu_text, exp_blocks, split_section, split_blocks, experiences, varsYearsLocals, varsSkills, varsLang>>

\* lines 216-240: the experience enrichment
FullEnrichExperiences ==
    /\ comp = "full" /\ pc = "llm_exp"
    /\ \E resp \in ExpResponses :
          /\ llm_exp' = resp
          /\ CASE EnrichOutcome(resp) = "raise" ->
                    /\ Respond(500, EnrichException(resp))
                    /\ UNCHANGED experiences
               [] EnrichOutcome(resp) = "skip" ->
                    /\ pc' = "overall"
                    /\ UNCHANGED <<experiences, status, error>>
               [] OTHER ->
                    /\ experiences' = ReplaceIfAny(experiences,
                                                   BuildExperiences(IteratedItems(resp)))
                    /\ pc' = "overall"
                    /\ UNCHANGED <<status, error>>
    /\ UNCHANGED <<comp, upload, llm_available, llm_edu, candidate_name,
                   name_confidence, missing_info, missing_info_bound, photo_result,
                   heur_educations, heur_experiences, overall>>
    /\ UNCHANGED <<edu_text, exp_blocks, split_section, split_blocks, educations, last_degree,
                   varsYearsLocals, varsSkills, varsLang>>

\* lines 242-276: overall confidence, the dossier, the response
FullBuildDossier ==
    /\ comp = "full" /\ pc = "overall"
    /\ overall' \in OverallConfidence(educations, experiences, languages)
    /\ Respond(200, "")
    /\ UNCHANGED <<comp, upload, llm_available, llm_edu, llm_exp, candidate_name,
                   name_confidence, missing_info, missing_info_bound, photo_result,
                   heur_educations, heur_experiences>>
    /\ UNCHANGED <<varsDocs, varsYears, varsSkills, varsLang>>

----------------------------------------------------------------------------
(* main.py: extract_education_only and extract_experiences_only; neither   *)
(* has a handler, an exception ends the request as HTTP 500                *)

EducationOnlyExtract ==
    /\ comp = "education_only" /\ pc = "start"
    /\ educations' = extract_educations(edu_text)
    /\ heur_educations' = extract_educations(edu_text)
    /\ pc' = IF llm_available THEN "llm_edu" ELSE "last"
    /\ UNCHANGED <<comp, upload, llm_available, llm_edu, llm_exp, candidate_name,
                   name_confidence, missing_info, missing_info_bound, photo_result,
                   heur_experiences, overall, status, error>>
    /\ UNCHANGED <<edu_text, exp_blocks, split_section, split_blocks, experiences, last_degree,
                   varsYearsLocals, varsSkills, varsLang>>

EducationOnlyEnrich ==
    /\ comp = "education_only" /\ pc = "llm_edu"
    /\ \E resp \in EduResponses :
          /\ llm_edu' = resp
          /\ CASE EnrichOutcome(resp) = "raise" ->
                    /\ Respond(500, EnrichException(resp))
                    /\ UNCHANGED educations
               [] EnrichOutcome(resp) = "skip" ->
                    /\ pc' = "last"
                    /\ UNCHANGED <<educations, status, error>>
               [] OTHER ->
                    /\ educations' = ReplaceIfAny(educations,
                                                  BuildEducations(IteratedItems(resp)))
                    /\ pc' = "last"
                    /\ UNCHANGED <<status, error>>
    /\ UNCHANGED <<comp, upload, llm_available, llm_exp, candidate_name,
                   name_confidence, missing_info, missing_info_bound, photo_result,
                   heur_educations, heur_experiences, overall>>
    /\ UNCHANGED <<edu_text, exp_blocks, split_section, split_blocks, experiences, last_degree,
                   varsYearsLocals, varsSkills, varsLang>>

EducationOnlyReturn ==
    /\ comp = "education_only" /\ pc = "last"
    /\ last_degree' = determine_last_degree(educations)
    /\ Respond(200, "")
    /\ UNCHANGED <<comp, upload, llm_available, llm_edu, llm_exp, candidate_name,
                   name_confidence, missing_info, missing_info_bound, photo_result,
                   heur_educations, heur_experiences, overall>>
    /\ UNCHANGED <<edu_text, exp_blocks, split_section, split_blocks, experiences, educations,
                   varsYearsLocals, varsSkills, varsLang>>

ExperiencesOnlyExtract ==
    /\ comp = "experiences_only" /\ pc = "start"
    /\ experiences' = extract_experiences(exp_blocks)
    /\ heur_experiences' = extract_experiences(exp_blocks)
    /\ pc' = IF llm_available THEN "llm_exp" ELSE "return"
    /\ UNCHANGED <<comp, upload, llm_available, llm_edu, llm_exp, candidate_name,
                   name_confidence, missing_info, missing_info_bound, photo_result,
                   heur_educations, overall, status, error>>
    /\ UNCHANGED <<edu_text, exp_blocks, split_section, split_blocks, educations, last_degree,
                   varsYearsLocals, varsSkills, varsLang>>

ExperiencesOnlyEnrich ==
    /\ comp = "experiences_only" /\ pc = "llm_exp"
    /\ \E resp \in ExpResponses :
          /\ llm_exp' = resp
          /\ CASE EnrichOutcome(resp) = "raise" ->
                    /\ Respond(500, EnrichException(resp))
                    /\ UNCHANGED experiences
               [] EnrichOutcome(resp) = "skip" ->
                    /\ pc' = "return"
                    /\ UNCHANGED <<experiences, status, error>>
               [] OTHER ->
                    /\ experiences' = ReplaceIfAny(experiences,
                                                   BuildExperiences(IteratedItems(resp)))
                    /\ pc' = "return"
                    /\ UNCHANGED <<status, error>>
    /\ UNCHANGED <<comp, upload, llm_available, llm_edu, candidate_name,
                   name_confidence, missing_info, missing_info_bound, photo_result,
                   heur_educations, heur_experiences, overall>>
    /\ UNCHANGED <<edu_text, exp_blocks, split_section, split_blocks, educations, last_degree,
                   varsYearsLocals, varsSkills, varsLang>>

ExperiencesOnlyReturn ==
    /\ comp = "experiences_only" /\ pc = "return"
    /\ Respond(200, "")
    /\ UNCHANGED <<comp, upload, llm_available, llm_edu, llm_exp, candidate_name,
                   name_confidence, missing_info, missing_info_bound, photo_result,
                   heur_educations, heur_experiences, overall>>
    /\ UNCHANGED <<varsDocs, varsYears, varsSkills, varsLang>>

BlankSplit == split_section = <<>> /\ split_blocks = <<>>

BlankDocs ==
    /\ edu_text = <<>> /\ exp_blocks = <<>> /\ educations = <<>> /\ last_degree = <<>>
    /\ BlankSplit

BlankRequest ==
    /\ upload = NoUpload /\ llm_available = FALSE
    /\ llm_edu = NotAsked /\ llm_exp = NotAsked
    /\ candidate_name = "" /\ name_confidence = 0
    /\ missing_info = <<>> /\ missing_info_bound = FALSE
    /\ photo_result = [found |-> FALSE]
    /\ heur_educations = <<>> /\ heur_experiences = <<>>
    /\ overall = 0 /\ status = 0 /\ error = ""

BlankLang ==
    /\ lang_text = <<>> /\ found_languages = <<>> /\ languages = <<>>

BlankYears ==
    /\ experiences = <<>> /\ idx = 0
    /\ intervals = <<>> /\ intervals_no_internship = <<>>
    /\ missing_dates = <<>> /\ merged = <<>> /\ merged_no_intern = <<>>
    /\ result = NoResult

InitYears ==
    /\ comp = "years" /\ pc = "loop"
    /\ experiences \in SeqsUpTo(ExpPool, MaxExps)
    /\ idx = 1
    /\ intervals = <<>> /\ intervals_no_internship = <<>>
    /\ missing_dates = <<>> /\ merged = <<>> /\ merged_no_intern = <<>>
    /\ result = NoResult
    /\ BlankSkills /\ BlankLang /\ BlankDocs /\ BlankRequest

InitMerge ==
    /\ comp = "merge" /\ pc = "call"
    /\ intervals \in SeqsUpTo(DayIntervals, MaxIntervals)
    /\ experiences = <<>> /\ idx = 0
    /\ intervals_no_internship = <<>>
    /\ missing_dates = <<>> /\ merged = <<>> /\ merged_no_intern = <<>>
    /\ result = NoResult
    /\ BlankSkills /\ BlankLang /\ BlankDocs /\ BlankRequest

\* the date strings given to _parse_date: every shape, two years, two months
InitParseDate ==
    /\ comp = "parse_date" /\ pc = "call"
    /\ \E s, e \in {NullStr, PresentStr, DateStr("junk", 0, 0)}
                   \cup {DateStr(f, y, m) : f \in {"mon", "ym"}, y \in {2018, 2019},
                                            m \in {1, 6}}
                   \cup {DateStr("year", y, 0) : y \in {2018, 2019}} :
          experiences = <<Exp(s, e, <<"plain", "none">>)>>
    /\ idx = 0
    /\ intervals = <<>> /\ intervals_no_internship = <<>>
    /\ missing_dates = <<>> /\ merged = <<>> /\ merged_no_intern = <<>>
    /\ result = NoResult
    /\ BlankSkills /\ BlankLang /\ BlankDocs /\ BlankRequest

InitSkills ==
    /\ comp \in {"skills", "tools"} /\ pc = "call"
    /\ text \in Texts
    /\ cfg \in TableChoices
    /\ skill_data = <<>> /\ tool_data = <<>>
    /\ hard_skills = <<>> /\ soft_skills = <<>> /\ top_tools = <<>>
    /\ BlankYears /\ BlankLang /\ BlankDocs /\ BlankRequest

InitLang ==
    /\ comp = "languages" /\ pc = "call"
    /\ lang_text \in SeqsUpTo(LangLineChoices, MaxLangLines)
    /\ found_languages = <<>> /\ languages = <<>>
    /\ BlankYears /\ BlankSkills /\ BlankDocs /\ BlankRequest

NextSkills == ExtractSkillsCall \/ ExtractTopToolsCall

SpecSkills == InitSkills /\ [][NextSkills]_vars

NextYears == CalcLoop \/ CalcFinish
NextMerge == MergeCall

SpecYears == InitYears /\ [][NextYears]_vars
SpecMerge == InitMerge /\ [][NextMerge]_vars
SpecParseDate == InitParseDate /\ [][ParseDateCall]_vars

----------------------------------------------------------------------------
(* Properties of the duration calculator                                   *)

C1Input ==
    << Exp(DateStr("ym", 2018, 1), DateStr("ym", 2020, 1), <<"plain", "none">>),
       Exp(DateStr("ym", 2019, 6), DateStr("ym", 2021, 1), <<"plain", "none">>) >>

\* C1: the experiences ("2018-01" -> "2020-01") and ("2019-06" -> "2021-01")
\* give total_months = 36, as one merged interval 2018-01 .. 2021-01.
C1_UnionIs36Months ==
    (comp = "years" /\ pc = "done" /\ experiences = C1Input) =>
        /\ result.total_months = 36
        /\ Len(result.intervals) = 1
        /\ YearOf(result.intervals[1].start) = 2018
        /\ MonthOf(result.intervals[1].start) = 1
        /\ YearOf(result.intervals[1].end) = 2021
        /\ MonthOf(result.intervals[1].end) = 1

\* what the code returns on that input: 2018-01-01 .. 2021-12-01, 47 months
C1_CodeGives47 ==
    (comp = "years" /\ pc = "done" /\ experiences = C1Input) =>
        /\ result.total_months = 47
        /\ merged = <<(<<Date(2018, 1, 1), Date(2021, 12, 1)>>)>>

Covered(ivs) == {d \in 0..(MaxDay + 1) : \E k \in 1..Len(ivs) : ivs[k][1] <= d /\ d <= ivs[k][2]}

Permuted(s, p) == [k \in 1..Len(s) |-> s[p[k]]]

\* C2: _merge_intervals returns a list sorted by start, in which every
\* interval starts strictly after the previous one ends, which covers exactly
\* the dates the input covers, and which is the same for every order of the
\* input list.
C2_MergeSortedDisjointUnion ==
    (comp = "merge" /\ pc = "done") =>
        /\ \A k \in 1..(Len(merged) - 1) :
               /\ merged[k][1] <= merged[k + 1][1]
               /\ merged[k][2] < merged[k + 1][1]
        /\ \A k \in 1..Len(merged) : merged[k][1] <= merged[k][2]
        /\ Covered(merged) = Covered(intervals)
        /\ \A p \in Perms(1..Len(intervals)) :
               merge_intervals(Permuted(intervals, p)) = merged

\* an unsorted input with a contained interval and a separate one
C2_Witness ==
    /\ comp = "merge" /\ pc = "done"
    /\ intervals = << <<2, 3>>, <<0, 1>>, <<3, 3>> >>
    /\ merged = << <<0, 1>>, <<2, 3>> >>

ValidDates(exp) ==
    LET s == parse_date(exp.start_date, FALSE)
        e0 == parse_date(exp.end_date, TRUE)
        e == IF e0 = NoDate THEN Today ELSE e0
    IN  s # NoDate /\ e >= s

IntervalOfExp(exp) ==
    LET e0 == parse_date(exp.end_date, TRUE)
    IN  <<parse_date(exp.start_date, FALSE), IF e0 = NoDate THEN Today ELSE e0>>

MentionsInternship(exp) ==
    exp.position = "keyword" \/ exp.mission_summary = "keyword"

RECURSIVE IntervalsWhere(_, _)
\* the intervals of the valid experiences, without the internships if asked
IntervalsWhere(exps, without_internships) ==
    IF exps = <<>> THEN <<>>
    ELSE LET e == Head(exps)
             keep == ValidDates(e) /\ ~(without_internships /\ MentionsInternship(e))
         IN  (IF keep THEN <<IntervalOfExp(e)>> ELSE <<>>)
                 \o IntervalsWhere(Tail(exps), without_internships)

\* C3: an experience with valid dates that mentions an internship keyword in
\* its position or mission summary is in the interval set behind `intervals`
\* and total_months and not in the one behind
\* total_years_excluding_internships; one without keyword is in both.
C3_InternshipExclusion ==
    (comp = "years" /\ pc = "done") =>
        /\ intervals = IntervalsWhere(experiences, FALSE)
        /\ intervals_no_internship = IntervalsWhere(experiences, TRUE)
        /\ result.total_months = SumMonths(merge_intervals(intervals))
        /\ result.total_years_excluding_internships =
               RoundHalfEven(SumMonths(merge_intervals(intervals_no_internship)) * 10, 12)

\* an internship named in the mission summary next to a regular job
C3_Witness ==
    /\ comp = "years" /\ pc = "done"
    /\ Len(experiences) = 2
    /\ experiences[1].mission_summary = "keyword"
    /\ experiences[2].position = "plain" /\ experiences[2].mission_summary = "none"
    /\ Len(intervals) = 2
    /\ Len(intervals_no_internship) = 1
    /\ result.total_years_excluding_internships < result.total_years

BlankYearsLocals ==
    /\ idx = 0
    /\ intervals = <<>> /\ intervals_no_internship = <<>>
    /\ missing_dates = <<>> /\ merged = <<>> /\ merged_no_intern = <<>>
    /\ result = NoResult

InitEducations ==
    /\ comp = "educations" /\ pc = "call"
    /\ edu_text \in EduTexts
    /\ exp_blocks = <<>> /\ educations = <<>> /\ last_degree = <<>>
    /\ BlankSplit
    /\ BlankYears /\ BlankSkills /\ BlankLang /\ BlankRequest

InitName ==
    /\ comp = "name" /\ pc = "call"
    /\ \E t \in NameTexts : upload = Upload(TRUE, TRUE, FALSE, "", t)
    /\ llm_available = FALSE /\ llm_edu = NotAsked /\ llm_exp = NotAsked
    /\ candidate_name = "" /\ name_confidence = 0
    /\ missing_info = <<>> /\ missing_info_bound = FALSE
    /\ photo_result = [found |-> FALSE]
    /\ heur_educations = <<>> /\ heur_experiences = <<>>
    /\ overall = 0 /\ status = 0 /\ error = ""
    /\ BlankYears /\ BlankSkills /\ BlankLang /\ BlankDocs

SpecName == InitName /\ [][ExtractNameCall]_vars

InitLastDegree ==
    /\ comp = "last_degree" /\ pc = "call"
    /\ educations \in SeqsUpTo(EducationPool, MaxEdus)
    /\ edu_text = <<>> /\ exp_blocks = <<>> /\ last_degree = <<>>
    /\ BlankSplit
    /\ BlankYears /\ BlankSkills /\ BlankLang /\ BlankRequest

SpecLastDegree == InitLastDegree /\ [][DetermineLastDegreeCall]_vars

InitExperiences ==
    /\ comp = "experiences" /\ pc = "call"
    /\ exp_blocks \in SeqsUpTo(Range(BlockPool), MaxBlocks)
    /\ edu_text = <<>> /\ educations = <<>> /\ last_degree = <<>>
    /\ BlankSplit
    /\ BlankYears /\ BlankSkills /\ BlankLang /\ BlankRequest

InitSplit ==
    /\ comp = "split" /\ pc = "call"
    /\ split_section \in SeqsUpTo(Tokens, MaxSection)
    /\ split_blocks = <<>>
    /\ edu_text = <<>> /\ exp_blocks = <<>> /\ educations = <<>> /\ last_degree = <<>>
    /\ BlankYears /\ BlankSkills /\ BlankLang /\ BlankRequest

SpecSplit == InitSplit /\ [][SplitCall]_vars

\* a request to /extract, /extract/education or /extract/experiences
InitEndpoints ==
    /\ comp \in {"full", "education_only", "experiences_only"} /\ pc = "start"
    /\ \E d \in Documents :
          /\ upload = d[1]
          /\ edu_text = d[2]
          /\ exp_blocks = d[3]
          /\ lang_text = d[4]
          /\ text = d[5]
          /\ comp # "full" => d[1].pdf /\ d[1].has_text
    /\ cfg = ConfigTables
    /\ llm_available \in BOOLEAN
    /\ llm_edu = NotAsked /\ llm_exp = NotAsked
    /\ candidate_name = "" /\ name_confidence = 0
    /\ missing_info = <<>> /\ missing_info_bound = FALSE
    /\ photo_result = [found |-> FALSE]
    /\ heur_educations = <<>> /\ heur_experiences = <<>>
    /\ overall = 0 /\ status = 0 /\ error = ""
    /\ educations = <<>> /\ last_degree = <<>> /\ experiences = <<>>
    /\ skill_data = <<>> /\ tool_data = <<>>
    /\ hard_skills = <<>> /\ soft_skills = <<>> /\ top_tools = <<>>
    /\ found_languages = <<>> /\ languages = <<>>
    /\ BlankSplit
    /\ BlankYearsLocals

NextEndpoints ==
    \/ FullCheckUpload \/ FullName \/ FullPhoto \/ FullHeuristics
    \/ FullEnrichEducations \/ FullEnrichExperiences \/ FullBuildDossier
    \/ EducationOnlyExtract \/ EducationOnlyEnrich \/ EducationOnlyReturn
    \/ ExperiencesOnlyExtract \/ ExperiencesOnlyEnrich \/ ExperiencesOnlyReturn

SpecEndpoints == InitEndpoints /\ [][NextEndpoints]_vars

----------------------------------------------------------------------------
(* Every entry point                                                       *)

Init ==
    \/ InitYears \/ InitMerge \/ InitParseDate \/ InitSkills \/ InitLang
    \/ InitEducations \/ InitLastDegree \/ InitExperiences \/ InitName
    \/ InitSplit \/ InitEndpoints

Next ==
    \/ NextYears \/ NextMerge \/ ParseDateCall \/ NextSkills \/ ExtractLanguagesCall
    \/ ExtractEducationsCall \/ DetermineLastDegreeCall \/ ExtractExperiencesCall
    \/ ExtractNameCall \/ SplitCall
    \/ NextEndpoints

Spec == Init /\ [][Next]_vars

----------------------------------------------------------------------------
(* The three rankers (hard/soft skills, tools, languages) as one family.   *)

SpecRank == (InitSkills \/ InitLang) /\ [][NextSkills \/ ExtractLanguagesCall]_vars

----------------------------------------------------------------------------
(* C7 -- skill/tool disjointness                                           *)

ToolsDone == comp = "tools" /\ pc = "done"

SkillsDone == comp = "skills" /\ pc = "done"

LanguagesDone == comp = "languages" /\ pc = "done"

\* C7: whatever the text and the tables, no tool returned by
\* extract_top_tools bears a name that is, case-insensitively, a term of the
\* hard-skill taxonomy.
C7_NoHardSkillAmongTools ==
    ToolsDone => \A k \in 1..Len(top_tools) : top_tools[k].name.low \notin cfg.hard

\* What the code does guarantee: no tool record is registered FROM a raw
\* taxonomy term that is a hard-skill term; it is the alias-normalised name
\* that can still be one.
C7_TermOfBothTablesReturnedAsTool ==
    /\ ToolsDone
    /\ \E k \in 1..Len(top_tools) : top_tools[k].name.low \in cfg.hard \cap cfg.tools

----------------------------------------------------------------------------
(* C8 -- top-N truncation                                                  *)

Names(list) == {list[k].name : k \in 1..Len(list)}

\* `out` holds at most n entries, in non-increasing order of score, all of
\* them candidates, and no candidate left out scores strictly higher than a
\* returned one; nothing is left out while there is room
TopByScore(out, candidates, n) ==
    /\ Len(out) <= n
    /\ \A k \in 1..(Len(out) - 1) : out[k].score >= out[k + 1].score
    /\ \A k \in 1..Len(out) : out[k] \in candidates
    /\ \A c \in candidates :
          c.name \notin Names(out) =>
              /\ Len(out) = n
              /\ \A k \in 1..Len(out) : c.score <= out[k].score

SkillCandidates(category) ==
    {SkillOf(skill_data[k]) : k \in {j \in 1..Len(skill_data) :
                                       (skill_data[j].category = "hard") = (category = "hard")}}

ToolCandidates ==
    {ToolOf(tool_data[k]) : k \in {j \in 1..Len(tool_data) : PassesGate(tool_data[j])}}

\* C8: the hard-skill, soft-skill and tool lists each hold at most 5 entries
\* in non-increasing order of score and no omitted candidate outscores a
\* returned one; the language list holds at most 3 entries in non-increasing
\* order of level.
C8_TopNTruncation ==
    /\ SkillsDone => /\ TopByScore(hard_skills, SkillCandidates("hard"), 5)
                     /\ TopByScore(soft_skills, SkillCandidates("soft"), 5)
    /\ ToolsDone => TopByScore(top_tools, ToolCandidates, 5)
    /\ LanguagesDone =>
          /\ Len(languages) <= 3
          /\ \A k \in 1..(Len(languages) - 1) : languages[k].level >= languages[k + 1].level

\* a run in which a list was actually cut: six scored hard skills, five
\* returned, and the scores not all equal
C8_Witness ==
    /\ SkillsDone
    /\ Len(skill_data) = 6 /\ Len(hard_skills) = 5
    /\ hard_skills[1].score > hard_skills[5].score
    /\ \E k \in 1..Len(skill_data) : skill_data[k].score < hard_skills[1].score
                                      /\ skill_data[k].name \notin Names(hard_skills)

----------------------------------------------------------------------------
(* C9 -- idempotence across iteration orders                               *)

\* the occurring terms of a taxonomy in ascending order: one fixed
\* iteration order to compare every other against
ReferenceOrder(txt, taxonomy) ==
    CHOOSE o \in IterationOrders(txt, taxonomy) :
        \A a \in 1..Len(o), b \in 1..Len(o) : a < b => o[a] < o[b]

\* C9: the same text gives the same entity lists whatever order the taxonomy
\* sets are iterated in -- every run returns what the run with the
\* reference order returns, ties and the top-5 cut included.
C9_SameListsForEveryIterationOrder ==
    /\ SkillsDone =>
          LET r == extract_skills(text, cfg, ReferenceOrder(text, cfg.hard),
                                  ReferenceOrder(text, cfg.soft))
          IN  hard_skills = r.hard /\ soft_skills = r.soft
    /\ ToolsDone =>
          top_tools = extract_top_tools(text, cfg, ReferenceOrder(text, cfg.tools)).tools

----------------------------------------------------------------------------
(* C4 -- a missing field never aborts extract_full                         *)

FullDone == comp = "full" /\ pc = "done"

\* C4: in extract_full on a PDF with text, a field that is not found never
\* aborts: the request ends with the profile (HTTP 200), the field empty
\* and its gap line in missing_information -- the candidate name included.
\* (Requests without the collaborator, so that only the heuristics act.)
C4_MissingFieldNeverAborts ==
    (FullDone /\ upload.pdf /\ upload.has_text /\ ~llm_available) =>
        /\ status = 200
        /\ candidate_name = "" => "Nom du candidat non détecté" \in Range(missing_info)
        /\ educations = <<>> => "Aucune formation détectée" \in Range(missing_info)
        /\ experiences = <<>> => "Aucune expérience détectée" \in Range(missing_info)
        /\ languages = <<>> => "Aucune langue détectée" \in Range(missing_info)
        /\ hard_skills = <<>> => "Aucun hard skill détecté" \in Range(missing_info)
        /\ soft_skills = <<>> => "Aucun soft skill détecté" \in Range(missing_info)
        /\ top_tools = <<>> => "Aucun outil maîtrisé détecté" \in Range(missing_info)

\* the run the code makes of a text without name line: HTTP 500
C4_NoNameEndsInError ==
    /\ FullDone /\ upload.pdf /\ upload.has_text
    /\ candidate_name = "" /\ status = 500 /\ error = "UnboundLocalError"

----------------------------------------------------------------------------
(* C5 -- the collaborator is never fatal                                   *)

EndpointDone ==
    comp \in {"full", "education_only", "experiences_only"} /\ pc = "done"

\* the entities a response yields, none when the loop is not entered
ValidEducations(resp) ==
    IF resp # NotAsked /\ EnrichOutcome(resp) = "loop"
    THEN BuildEducations(IteratedItems(resp)) ELSE <<>>

ValidExperiences(resp) ==
    IF resp # NotAsked /\ EnrichOutcome(resp) = "loop"
    THEN BuildExperiences(IteratedItems(resp)) ELSE <<>>

\* C5: whatever the collaborator returned, the request is not aborted, and
\* a list for which no valid replacement entity was obtained is the
\* heuristic list.
C5_CollaboratorNeverFatal ==
    (EndpointDone /\ (llm_edu # NotAsked \/ llm_exp # NotAsked)) =>
        /\ status = 200
        /\ ValidEducations(llm_edu) = <<>> => educations = heur_educations
        /\ ValidExperiences(llm_exp) = <<>> => experiences = heur_experiences

\* the run the code makes of {"educations": 5}: the request is aborted
C5_MalformedResponseAborts ==
    /\ EndpointDone /\ llm_edu = Response("dict", "number", <<>>)
    /\ status = 500 /\ error = "TypeError"

----------------------------------------------------------------------------
(* C6 -- wholesale replacement                                             *)

\* every entity of the list was built from an element of the response
EducationsFromCollaborator(list, resp) ==
    /\ resp # NotAsked
    /\ \A k \in 1..Len(list) :
          \E j \in 1..Len(IteratedItems(resp)) :
              <<list[k]>> = EduModelOf(IteratedItems(resp)[j])

ExperiencesFromCollaborator(list, resp) ==
    /\ resp # NotAsked
    /\ \A k \in 1..Len(list) :
          \E j \in 1..Len(IteratedItems(resp)) :
              <<list[k]>> = ExpModelOf(IteratedItems(resp)[j])

\* C6: in extract_full the educations list is at every moment either the
\* heuristic list or made only of entities built from the collaborator's
\* output, and so is the experiences list: never a mixture, never a
\* heuristic entity with fields changed.
C6_WholesaleReplacement ==
    comp = "full" =>
        /\ \/ educations = heur_educations
           \/ EducationsFromCollaborator(educations, llm_edu)
        /\ \/ experiences = heur_experiences
           \/ ExperiencesFromCollaborator(experiences, llm_exp)

\* a profile whose educations were replaced by fewer entities than the
\* collaborator sent elements (an invalid one was dropped), next to
\* experiences the collaborator left alone
C6_Witness ==
    /\ FullDone /\ status = 200
    /\ heur_educations # <<>> /\ educations # heur_educations
    /\ llm_edu.key = "list" /\ Len(educations) < Len(llm_edu.items)
    /\ llm_exp # NotAsked /\ heur_experiences # <<>>
    /\ experiences = heur_experiences

----------------------------------------------------------------------------
(* C10 -- ranges of confidences and levels                                 *)

\* a confidence in hundredths
InUnitInterval(c) == c \in 0..100

AllConfidencesInRange(list) ==
    \A k \in 1..Len(list) : InUnitInterval(list[k].confidence)

AllLevelsOneToFive(list) ==
    \A k \in 1..Len(list) : list[k].level \in 1..5

\* C10: every entity any extractor produces, and the result of
\* calculate_years_of_experience, has its confidence in [0, 1]; Skill and
\* Tool levels are integers in 1..5; Language levels are multiples of 0.5
\* in [0, 5]; overall_confidence is in [0, 1].
C10_ConfidencesAndLevelsInRange ==
    /\ AllConfidencesInRange(educations)
    /\ AllConfidencesInRange(last_degree)
    /\ comp \notin {"years", "merge", "parse_date"} => AllConfidencesInRange(experiences)
    /\ AllConfidencesInRange(languages) /\ AllConfidencesInRange(found_languages)
    /\ \A k \in 1..Len(languages) :
          languages[k].level \in 0..50 /\ languages[k].level % 5 = 0
    /\ AllConfidencesInRange(hard_skills) /\ AllLevelsOneToFive(hard_skills)
    /\ AllConfidencesInRange(soft_skills) /\ AllLevelsOneToFive(soft_skills)
    /\ AllConfidencesInRange(top_tools) /\ AllLevelsOneToFive(top_tools)
    /\ InUnitInterval(result.confidence)
    /\ InUnitInterval(name_confidence)
    /\ InUnitInterval(overall)

\* a profile with every kind of entity in it, one of the skills mentioned
\* often enough for the cap of its confidence to act
C10_Witness ==
    /\ FullDone /\ status = 200
    /\ educations # <<>> /\ experiences # <<>> /\ languages # <<>>
    /\ hard_skills # <<>> /\ soft_skills # <<>> /\ top_tools # <<>>
    /\ \E k \in 1..Len(skill_data) :
          /\ skill_data[k].mentions >= 5
          /\ SkillOf(skill_data[k]).confidence = 100
          /\ SkillOf(skill_data[k]) \in Range(hard_skills)
    /\ overall > 50

----------------------------------------------------------------------------
(* C11 -- the last degree                                                  *)

\* the (level, year) key of a is at most that of b, lexicographically; the
\* level is the one of the degree text, a missing year is year 0
KeyAtMost(a, b) ==
    LET la == determine_degree_level(a.degree).level
        lb == determine_degree_level(b.degree).level
    IN  la < lb \/ (la = lb /\ a.year <= b.year)

----------------------------------------------------------------------------
(* C12 -- the candidate name                                               *)

NameDone == comp = "name" /\ pc = "done"

\* the non-empty lines of the text given to extract_candidate_name
NonEmptyLines == SelectSeq(upload.name_lines, LAMBDA l : l.text # "")

\* the positions (0-based) of the qualifying lines among the first 20
QualifyingPositions ==
    {q \in 0..(NameScanLines - 1) : q < Len(NonEmptyLines) /\ NonEmptyLines[q + 1].valid}

\* C12: extract_candidate_name looks only at the first 20 non-empty lines
\* and returns the first of them, in document order, that qualifies as a
\* name, in Title Case when it is all upper case, with confidence 0.95
\* when its position is <= 3, 0.80 when <= 7, 0.65 otherwise; without a
\* qualifying line it returns (null, 0.0); so the name is null exactly when
\* the confidence is 0.0.
C12_FirstQualifyingLineAndTier ==
    NameDone =>
        /\ IF QualifyingPositions = {}
           THEN candidate_name = "" /\ name_confidence = 0
           ELSE LET q == CHOOSE x \in QualifyingPositions :
                             \A y \in QualifyingPositions : x <= y
                    line == NonEmptyLines[q + 1]
                IN  /\ candidate_name = IF line.upper THEN line.title ELSE line.text
                    /\ name_confidence = CASE q <= 3 -> 95 [] q <= 7 -> 80 [] OTHER -> 65
        /\ candidate_name = "" <=> name_confidence = 0

\* "JEAN DUPONT" on the 2nd line and an e-mail address on the 1st
C12_Witness ==
    /\ NameDone
    /\ Len(upload.name_lines) = 3
    /\ upload.name_lines[1].text = "john@example.com"
    /\ upload.name_lines[2].text = "JEAN DUPONT"
    /\ candidate_name = "Jean Dupont" /\ name_confidence = 95

----------------------------------------------------------------------------
(* C13, C14 -- languages                                                   *)

\* the lines of the searched text that mention the language as a whole word
LinesMentioning(name) ==
    LET lines == LanguageSearchText(lang_text)
    IN  {k \in 1..Len(lines) :
            \E h \in 1..Len(lines[k].langs) :
                lines[k].langs[h].name = name /\ lines[k].langs[h].word}

\* proficiency of a line in strict priority order: CEFR code, keyword, none
ResolvedProficiency(line) ==
    CASE line.cefr # "none" ->
            [level |-> LanguageLevel(line.cefr, 0), label |-> Label(line.cefr, "upper"),
             confidence |-> 95]
      [] line.cefr = "none" /\ line.kw # "none" ->
            [level |-> LanguageLevel(line.kw, 0), label |-> Label(line.kw, "title"),
             confidence |-> 85]
      [] OTHER ->
            [level |-> 25, label |-> Label("Non spécifié", "plain"), confidence |-> 30]

IsResolutionOf(entry, line) ==
    LET r == ResolvedProficiency(line)
    IN  /\ entry.level = r.level /\ entry.level_label = r.label
        /\ entry.confidence = r.confidence /\ entry.evidence = line

\* C13: the entry of a language carries the proficiency of a line that
\* mentions it (of the line, when only one does), resolved in strict
\* priority order: a CEFR code gives the table level, the code as label and
\* confidence 0.95, whether or not a keyword is on the line; otherwise a
\* keyword gives the table level with confidence 0.85; otherwise level 2.5,
\* label "Non spécifié", confidence 0.3.
C13_ProficiencyPriority ==
    LanguagesDone =>
        \A j \in 1..Len(found_languages) :
            LET lines == LanguageSearchText(lang_text)
                on == LinesMentioning(found_languages[j].name)
            IN  /\ on # {}
                /\ \E k \in on : IsResolutionOf(found_languages[j], lines[k])

\* "Anglais: B2" gives Anglais, 3.5, "B2", 0.95; and a line with the code
\* A2 and the keyword "fluent" gives 2, "A2", 0.95
C13_Witness ==
    /\ LanguagesDone
    /\ Len(lang_text) = 2
    /\ lang_text[1].cefr = "b2" /\ lang_text[1].kw = "none"
    /\ lang_text[2].cefr = "a2" /\ lang_text[2].kw = "fluent"
    /\ Len(found_languages) = 2
    /\ found_languages[1].name = "Anglais" /\ found_languages[1].level = 35
    /\ found_languages[1].level_label = Label("b2", "upper")
    /\ found_languages[1].confidence = 95
    /\ found_languages[2].level = 20 /\ found_languages[2].confidence = 95
    /\ found_languages[2].level_label = Label("a2", "upper")

\* the highest level to which an occurrence of the language resolves
HighestResolvedLevel(name) ==
    LET lines == LanguageSearchText(lang_text)
    IN  MaxOfSet({ResolvedProficiency(lines[k]).level : k \in LinesMentioning(name)})

\* C14: the output of extract_languages has at most one entry per canonical
\* language name, and the entry of a language found on several lines is
\* the occurrence with the highest resolved level (2.5 for an occurrence
\* without proficiency), whatever the order of the occurrences.
C14_OneEntryPerLanguageHighestLevel ==
    LanguagesDone =>
        /\ \A i, j \in 1..Len(languages) :
              languages[i].name = languages[j].name => i = j
        /\ \A j \in 1..Len(languages) :
              languages[j].level = HighestResolvedLevel(languages[j].name)

\* "Anglais: A2" followed by a line "Anglais" without proficiency: the
\* entry kept has level 2, below the 2.5 of the second occurrence
C14_LowerLevelKept ==
    /\ LanguagesDone
    /\ Len(lang_text) = 2
    /\ lang_text[1].cefr = "a2"
    /\ lang_text[2].cefr = "none" /\ lang_text[2].kw = "none"
    /\ Len(languages) = 1
    /\ languages[1].level = 20
    /\ HighestResolvedLevel(languages[1].name) = 25

----------------------------------------------------------------------------
(* C15 -- overall confidence                                               *)

\* the profile was built and returned
ProfileReturned == FullDone /\ status = 200

\* number and summed confidence of the entities of the profile
EntityCount ==
    Len(educations) + Len(experiences) + Len(languages)
    + Len(hard_skills) + Len(soft_skills) + Len(top_tools)

EntityConfidenceSum ==
    SumConfidence(educations) + SumConfidence(experiences) + SumConfidence(languages)
    + SumConfidence(hard_skills) + SumConfidence(soft_skills) + SumConfidence(top_tools)

\* C15: overall_confidence of the profile built by extract_full is the
\* mean (rounded to two decimals) of the confidences of all its entities --
\* educations, experiences, languages, hard skills, soft skills, tools --
\* and 0.5 when the profile has no entity.
C15_OverallIsMeanOfAllEntities ==
    ProfileReturned =>
        IF EntityCount = 0 THEN overall = 50
        ELSE overall \in RoundedMean(EntityConfidenceSum, EntityCount)

\* a profile with skills and tools whose overall confidence is the mean
\* over its educations, experiences and languages only
C15_SkillsAndToolsLeftOut ==
    /\ ProfileReturned
    /\ hard_skills # <<>> /\ top_tools # <<>>
    /\ overall \in OverallConfidence(educations, experiences, languages)
    /\ overall \notin RoundedMean(EntityConfidenceSum, EntityCount)

----------------------------------------------------------------------------
(* C16 -- gap lines of the returned profile                                *)

GapReported(line) == line \in Range(missing_info)

\* C16: in the profile returned by extract_full, missing_information holds
\* the gap line of a component (no education detected, last degree not
\* determined, no experience detected) exactly when the final field of the
\* profile is empty or null, also when the collaborator replaced a list.
C16_GapLinesMatchFinalFields ==
    ProfileReturned =>
        /\ GapReported("Aucune formation détectée") <=> educations = <<>>
        /\ GapReported("Dernier diplôme non déterminé") <=> last_degree = <<>>
        /\ GapReported("Aucune expérience détectée") <=> experiences = <<>>

\* a profile whose educations and last degree come from the collaborator
\* and which still reports that no education was detected
C16_StaleGapLine ==
    /\ ProfileReturned
    /\ heur_educations = <<>>
    /\ educations # <<>> /\ last_degree # <<>>
    /\ GapReported("Aucune formation détectée")
    /\ GapReported("Dernier diplôme non déterminé")

----------------------------------------------------------------------------
(* C17 -- status of an education                                           *)

EducationsDone == comp = "educations" /\ pc = "done"

\* an in-progress keyword (en cours, in progress, ongoing, current) appears
\* in the degree text
HasInProgressKeyword(edu) == \E k \in 1..Len(edu.degree) : edu.degree[k].in_progress

\* C17: every Education produced by extract_educations has a status among
\* "obtained" and "in_progress", and it is "in_progress" if and only if an
\* in-progress keyword appears in its degree text.
C17_StatusObtainedOrInProgress ==
    EducationsDone =>
        \A k \in 1..Len(educations) :
            /\ educations[k].status \in {"obtained", "in_progress"}
            /\ educations[k].status = "in_progress" <=> HasInProgressKeyword(educations[k])

\* an education whose degree text says "en cours": its status is "en_cours"
C17_StatusIsEnCours ==
    /\ EducationsDone
    /\ \E k \in 1..Len(educations) :
          HasInProgressKeyword(educations[k]) /\ educations[k].status = "en_cours"

----------------------------------------------------------------------------
(* C18 -- experiences without usable dates                                 *)

YearsDone == comp = "years" /\ pc = "done"

\* the start cannot be parsed
StartUnparsed(exp) == parse_date(exp.start_date, FALSE) = NoDate

\* the end (today when there is none) precedes the parsed start
EndPrecedesStart(exp) ==
    ~StartUnparsed(exp) /\ IntervalOfExp(exp)[2] < IntervalOfExp(exp)[1]

\* the experiences of the list that are counted, by index
CountedIndexes ==
    {k \in 1..Len(experiences) :
        ~StartUnparsed(experiences[k]) /\ ~EndPrecedesStart(experiences[k])}

\* the lines of missing_dates of one kind
LinesOfKind(kind) == {k \in 1..Len(missing_dates) : missing_dates[k].kind = kind}

----------------------------------------------------------------------------
(* C19 -- _parse_date                                                      *)

ParseDateDone == comp = "parse_date" /\ pc = "done"

\* the date the claim gives for a date string
ClaimedDate(ds, is_end) ==
    CASE ds.form = "year" -> IF is_end THEN Date(ds.y, 12, 31) ELSE Date(ds.y, 1, 1)
      [] ds.form \in {"mon", "ym"} -> Date(ds.y, ds.m, 1)
      [] ds.form = "present" -> Today
      [] OTHER -> NoDate

\* C19: _parse_date maps a bare year to January 1 of that year for a start
\* and to December 31 of that year for an end, month plus year to the
\* first day of that month, and a present/now keyword to today's date.
C19_ParseDateRules ==
    ParseDateDone =>
        /\ intervals[1][1] = ClaimedDate(experiences[1].start_date, FALSE)
        /\ intervals[1][2] = ClaimedDate(experiences[1].end_date, TRUE)

\* the end "2019" is parsed to December 1, 2019
C19_BareYearEndIsDecemberFirst ==
    /\ ParseDateDone
    /\ experiences[1].end_date = DateStr("year", 2019, 0)
    /\ intervals[1][2] = Date(2019, 12, 1)

----------------------------------------------------------------------------
(* C20 -- year of an education                                             *)

\* an education list was returned by extract_educations or by an endpoint
EducationListReturned ==
    \/ EducationsDone
    \/ comp \in {"full", "education_only"} /\ pc = "done" /\ status = 200

\* C20: every Education of a returned education list whose year is present
\* has a year in the range [1900, currentYear + 1].
C20_YearWithinRange ==
    EducationListReturned =>
        \A k \in 1..Len(educations) :
            educations[k].year # 0 =>
                educations[k].year \in 1900..(YearOf(Today) + 1)

\* "Licence ... 2030" read in 2022: the education has year 2030
C20_YearToCome ==
    /\ EducationsDone
    /\ Len(educations) = 1
    /\ educations[1].year = 2030
    /\ YearOf(Today) = 2022

----------------------------------------------------------------------------
(* C21 -- degree of an education                                           *)

\* C21: every Education of a returned education list, produced by the
\* heuristic parser or built from the collaborator's output, has a
\* non-empty degree.
C21_DegreeNonEmpty ==
    EducationListReturned =>
        \A k \in 1..Len(educations) : educations[k].degree # <<>>

\* the collaborator returned an element without "degree": the education
\* built from it is in the returned list, its degree the empty string
C21_EmptyDegreeFromCollaborator ==
    /\ comp = "full" /\ pc = "done" /\ status = 200
    /\ llm_edu.key = "list"
    /\ \E i \in 1..Len(llm_edu.items) : llm_edu.items[i].degree = "absent"
    /\ \E k \in 1..Len(educations) :
          educations[k].degree = <<>> /\ educations[k].confidence = 90

----------------------------------------------------------------------------
(* C22 -- team size                                                        *)

ExperiencesDone == comp = "experiences" /\ pc = "done"

\* C22: for every experience block, the team_size of the parsed Experience
\* is null unless the block contains an explicit numeric team-size
\* pattern, and when it is not null it is a positive integer equal to the
\* number written in the block.
C22_TeamSizeOnlyAsWritten ==
    ExperiencesDone =>
        \A k \in 1..Len(experiences) :
            /\ exp_blocks[k].team_size = <<>> => experiences[k].team_size = <<>>
            /\ experiences[k].team_size # <<>> =>
                  /\ experiences[k].team_size[1] > 0
                  /\ experiences[k].team_size[1] = exp_blocks[k].team_size[1].written

\* the block says "10 000 personnes": the team size is 0
C22_ThousandsReadAsZero ==
    /\ ExperiencesDone
    /\ Len(experiences) = 1
    /\ exp_blocks[1].team_size = <<[matched |-> 0, written |-> 10000]>>
    /\ experiences[1].team_size = <<0>>

----------------------------------------------------------------------------
(* C23 -- dates of an experience                                           *)

\* both date strings of the experience parse to calendar dates
BothDatesParse(exp) ==
    parse_date(exp.start_date, FALSE) # NoDate /\ parse_date(exp.end_date, TRUE) # NoDate

\* C23: for every Experience returned by extract_experiences whose
\* start_date and end_date both parse to calendar dates, the parsed end is
\* not earlier than the parsed start.
C23_EndNotBeforeStart ==
    ExperiencesDone =>
        \A k \in 1..Len(experiences) :
            BothDatesParse(experiences[k]) =>
                parse_date(experiences[k].end_date, TRUE)
                    >= parse_date(experiences[k].start_date, FALSE)

\* the block "2021 - 2019 | ...": the Experience keeps start 2021, end 2019
C23_ReversedRangeKept ==
    /\ ExperiencesDone
    /\ Len(experiences) = 1
    /\ experiences[1].start_date = DateStr("year", 2021, 0)
    /\ experiences[1].end_date = DateStr("year", 2019, 0)
    /\ parse_date(experiences[1].end_date, TRUE) = Date(2019, 12, 1)
    /\ parse_date(experiences[1].start_date, FALSE) = Date(2021, 1, 1)

----------------------------------------------------------------------------
(* C24 -- the level thresholds                                             *)

\* the level the thresholds give, read as five separate cases
ThresholdLevel(score, has_impact, mentions) ==
    LET five == score >= 15 \/ (has_impact /\ mentions >= 3)
        four == score >= 10 \/ has_impact
        three == score >= 6 \/ mentions >= 2
        two == score >= 3
    IN  CASE five -> 5
          [] ~five /\ four -> 4
          [] ~five /\ ~four /\ three -> 3
          [] ~five /\ ~four /\ ~three /\ two -> 2
          [] ~five /\ ~four /\ ~three /\ ~two -> 1

\* every returned entry carries the threshold level of the record it was
\* built from
LevelsFollowThresholds(list, data) ==
    \A k \in 1..Len(list) :
        \E j \in 1..Len(data) :
            /\ data[j].name = list[k].name
            /\ list[k].level
                  = ThresholdLevel(data[j].score, data[j].has_impact, data[j].mentions)

\* scores and mention counts around every threshold
LevelScores == 0..16
LevelMentions == 0..4

LevelIsMonotone ==
    \A s1 \in LevelScores, s2 \in LevelScores, m1 \in LevelMentions, m2 \in LevelMentions,
       i1 \in BOOLEAN, i2 \in BOOLEAN :
        (s1 <= s2 /\ m1 <= m2 /\ (i1 => i2))
            => compute_level(s1, i1, m1) <= compute_level(s2, i2, m2)

\* C24: _compute_level returns 5 if score >= 15 or (impact and mentions
\* >= 3); else 4 if score >= 10 or impact; else 3 if score >= 6 or mentions
\* >= 2; else 2 if score >= 3; else 1.  The same function gives the level of
\* skills and of tools, and the level is non-decreasing in each of score,
\* impact and mentions.
C24_LevelThresholds ==
    /\ SkillsDone => /\ LevelsFollowThresholds(hard_skills, skill_data)
                     /\ LevelsFollowThresholds(soft_skills, skill_data)
    /\ ToolsDone => LevelsFollowThresholds(top_tools, tool_data)
    /\ (SkillsDone \/ ToolsDone) =>
          /\ LevelIsMonotone
          /\ \A s \in LevelScores, m \in LevelMentions, i \in BOOLEAN :
                compute_level(s, i, m) = ThresholdLevel(s, i, m)

\* a tool mentioned once on a line with an impact verb: score 4, level 4
C24_Witness ==
    /\ ToolsDone
    /\ \E k \in 1..Len(top_tools) : top_tools[k].level = 4 /\ top_tools[k].score = 4
    /\ \E j \in 1..Len(tool_data) : tool_data[j].has_impact /\ tool_data[j].mentions = 1

----------------------------------------------------------------------------
(* C25 -- what a record accumulates                                        *)

RECURSIVE SumOf(_, _)
\* the sum of f over the finite set S
SumOf(f, S) ==
    IF S = {} THEN 0
    ELSE LET x == CHOOSE y \in S : TRUE IN f[x] + SumOf(f, S \ {x})

\* the canonical spelling of a taxonomy term
CanonicalOf(term) == IF cfg.alias[term] # 0 THEN cfg.alias[term] ELSE term

\* the taxonomies the entry point goes through, one pass each
TaxonomyPasses ==
    IF comp = "tools" THEN <<cfg.tools \ cfg.hard>> ELSE <<cfg.hard, cfg.soft>>

\* every occurrence registered for the canonical term `key`: the pass, the
\* term, the line and the rank of the match on the line
OccurrencesOfKey(key) ==
    {o \in (1..Len(TaxonomyPasses)) \X Terms \X (1..Len(text)) \X (1..NumTerms) :
        /\ o[2] \in TaxonomyPasses[o[1]]
        /\ CanonicalOf(o[2]) = key
        /\ o[4] <= Len(text[o[3]].terms)
        /\ text[o[3]].terms[o[4]] = o[2]}

\* the weight of the section an occurrence lies in: that of the last
\* heading at or above its line
WeightAtLine(k) ==
    LET above == {j \in 1..k : text[j].head # "none"}
    IN  IF above = {} THEN 1
        ELSE LET h == text[MaxOfSet(above)].head
             IN  CASE h = "certifications" -> 5
                   [] h = "experience" -> 4
                   [] h = "skills" -> 3
                   [] h = "projects" -> 3
                   [] OTHER -> 1

AccumulatedAsClaimed(d) ==
    LET occs == OccurrencesOfKey(d.key)
        n == Cardinality(occs)
    IN  /\ n >= 1
        /\ d.mentions = n
        /\ d.score = SumOf([o \in occs |-> WeightAtLine(o[3])], occs)
                       + Min(3, n)
                       + 2 * Cardinality({o \in occs : text[o[3]].impact})
        /\ d.has_impact = (\E o \in occs : text[o[3]].impact)
        /\ Len(d.evidence) <= 3
        /\ \A a, b \in 1..Len(d.evidence) : a # b => d.evidence[a] # d.evidence[b]
        /\ \A a \in 1..Len(d.evidence) : d.evidence[a].width <= 200

OneRecordPerCanonicalTerm(data) ==
    /\ \A a, b \in 1..Len(data) : a # b => data[a].key # data[b].key
    /\ \A key \in Terms :
          OccurrencesOfKey(key) # {} => \E a \in 1..Len(data) : data[a].key = key
    /\ \A a \in 1..Len(data) : AccumulatedAsClaimed(data[a])

\* C25: after the occurrences registered for one canonical term, its score
\* is the sum of their section weights (certifications 5, experience 4,
\* skills 3, projects 3, other 1) plus 1 for each of the first three plus 2
\* for every occurrence on a line with an impact verb; the impact flag stays
\* set once set; at most 3 distinct evidence snippets of at most 200
\* characters are kept; terms with the same canonical alias accumulate into
\* one record.
C25_ScoreAccumulation ==
    /\ SkillsDone => OneRecordPerCanonicalTerm(skill_data)
    /\ ToolsDone => OneRecordPerCanonicalTerm(tool_data)

\* a tool and its alias on five lines, nine occurrences: three snippets
\* kept, the long line cut, the impact flag kept by later plain lines
C25_Witness ==
    /\ ToolsDone
    /\ \E a \in 1..Len(tool_data) :
          /\ tool_data[a].key = 1
          /\ tool_data[a].mentions = 9
          /\ tool_data[a].score = 44
          /\ tool_data[a].has_impact
          /\ Len(tool_data[a].evidence) = 3
          /\ \E e \in 1..3 : tool_data[a].evidence[e].width = 200

----------------------------------------------------------------------------
(* C26 -- the blocks of the experience section                             *)

SplitDone == comp = "split" /\ pc = "done"

\* the first position of the line that holds position p
LineStartOf(sec, p) == MaxOfSet({j \in 1..(p - 1) : sec[j] = "nl"}) + 1

\* the positions of the section a block was cut from
CoveredBy(b) == b.start..(b.stop - 1)

\* C26: _split_into_experience_blocks yields one block per date anchor, each
\* spanning from the start of its anchor's line to just before the next
\* anchor's line (or to the end of the section), so that no part of the
\* text is covered by two blocks, also when two anchors lie on the same
\* line; without a date range the single dates are the anchors, and without
\* any date the whole section is one block.
C26_BlocksDoNotOverlap ==
    SplitDone =>
        LET anchors == AnchorPositions(split_section)
            n == Cardinality(anchors)
        IN  /\ n >= 1 =>
                  /\ Len(split_blocks) = n
                  /\ \A i \in 1..n :
                        split_blocks[i].start
                            = LineStartOf(split_section, NthOf(anchors, i))
                  /\ split_blocks[n].stop = Len(split_section) + 1
                  /\ \A i, j \in 1..n :
                        i # j => CoveredBy(split_blocks[i]) \cap CoveredBy(split_blocks[j]) = {}
            /\ (n = 0 /\ Strip(split_section) # <<>>) =>
                  split_blocks = <<[start |-> 1, stop |-> Len(split_section) + 1,
                                    text |-> split_section]>>

\* "w \n w range w range": the text of the second line up to the second
\* range is in both blocks
C26_SameLineAnchorsOverlap ==
    /\ SplitDone
    /\ split_section = <<"w", "nl", "w", "range", "range">>
    /\ Len(split_blocks) = 2
    /\ split_blocks[1].text = <<"w", "range">>
    /\ split_blocks[2].text = <<"w", "range", "range">>

\* "w range \n w": the word before the range on the first line is in no
\* block
C26_FirstLineCutAtAnchor ==
    /\ SplitDone
    /\ split_section = <<"w", "range", "nl", "w">>
    /\ split_blocks = <<[start |-> 2, stop |-> 5, text |-> <<"range", "nl", "w">>]>>

----------------------------------------------------------------------------
(* C27 -- section spans                                                    *)

\* the first line matching a heading, 0 if none
FirstHeading(txt, IsHeading(_)) ==
    LET heads == {k \in 1..Len(txt) : IsHeading(txt[k])}
    IN  IF heads = {} THEN 0 ELSE CHOOSE k \in heads : \A j \in heads : k <= j

\* `span` is made of consecutive lines of txt that all lie after line h
LiesAfter(span, txt, h) ==
    \E a \in (h + 1)..(Len(txt) + 1), b \in h..Len(txt) : span = SubSeq(txt, a, b)

IsEducationHeading(line) == line.head_edu

IsLanguageHeading(line) == line.head = "lang"

\* C27: the section locators return a span that begins after the first
\* line matching the section heading and holds no text from before it, and
\* the empty span when no heading matches; the parser scans the whole
\* document only when no heading was found.
C27_SectionAfterHeadingNoFallback ==
    /\ EducationsDone =>
          LET h == FirstHeading(edu_text, IsEducationHeading)
              found == find_education_section(edu_text)
              entries == extract_entries_from_section(IF h = 0 THEN edu_text ELSE found)
          IN  /\ h = 0 => found = <<>>
              /\ h > 0 => LiesAfter(found, edu_text, h)
              /\ educations = [k \in 1..Len(entries) |-> EducationOf(entries[k])]
    /\ LanguagesDone =>
          LET h == FirstHeading(lang_text, IsLanguageHeading)
              found == find_language_section(lang_text).lines
          IN  /\ h = 0 => found = <<>>
              /\ h > 0 => LiesAfter(found, lang_text, h)
              /\ found_languages
                    = ScanLanguageLines(<<>>, IF h = 0 THEN lang_text ELSE found)

\* "Anglais : B2 / Langues": the heading is found, its section is empty,
\* and the language comes from the line above the heading
C27_EmptySectionScansWholeText ==
    /\ LanguagesDone
    /\ lang_text = <<LangLine("none", <<Hit("Anglais")>>, "b2", "none"),
                     LangLine("lang", <<>>, "none", "none")>>
    /\ find_language_section(lang_text) = [found |-> TRUE, lines |-> <<>>]
    /\ Len(found_languages) = 1

\* "... / Formation / Master 2021": the section returned begins with the
\* heading line itself
C27_EducationSectionHoldsHeading ==
    /\ EducationsDone
    /\ Len(edu_text) = 3
    /\ edu_text[1] = EduLinePool[10] /\ edu_text[2] = EduLinePool[1]
    /\ edu_text[3] = EduLinePool[3]
    /\ find_education_section(edu_text) = <<EduLinePool[1], EduLinePool[3]>>

----------------------------------------------------------------------------
(* C28 -- lines attached to an education entry                             *)

\* the lines _extract_entries_from_section is given
ScannedSection ==
    LET found == find_education_section(edu_text)
    IN  IF found = <<>> THEN edu_text ELSE found

\* a line the loop passes over: a certification, or a date range without a
\* degree keyword
PassedOver(line) == line.exclude \/ (line.date_range /\ ~line.kw)

\* a line that opens an entry
Opens(line) ==
    ~PassedOver(line) /\ (line.kw \/ (line.years # <<>> /\ ~line.date_range))

OpeningLines == {k \in 1..Len(ScannedSection) : Opens(ScannedSection[k])}

\* the lines that attach to the i-th entry, in order
AttachedTo(i) ==
    LET S == ScannedSection
        o == NthOf(OpeningLines, i)
        next == IF i < Cardinality(OpeningLines) THEN NthOf(OpeningLines, i + 1)
                ELSE Len(S) + 1
    IN  SelectSeq([k \in 1..Len(S) |-> k],
                  LAMBDA k : o < k /\ k < next /\ ~PassedOver(S[k]))

\* among them, the one that becomes the school: the first that has a school
\* keyword or no year (0 if none)
SchoolLine(i) ==
    LET S == ScannedSection
        att == AttachedTo(i)
        can == {j \in 1..Len(att) : S[att[j]].school \/ S[att[j]].years = <<>>}
    IN  IF can = {} THEN 0 ELSE att[NthOf(can, 1)]

EntryAsClaimed(i) ==
    LET S == ScannedSection
        o == NthOf(OpeningLines, i)
        att == AttachedTo(i)
        sch == SchoolLine(i)
        rest == SelectSeq(att, LAMBDA k : k # sch)
    IN  /\ educations[i].school = (IF sch = 0 THEN <<>> ELSE <<S[sch]>>)
        /\ educations[i].degree = <<S[o]>> \o [j \in 1..Len(rest) |-> S[rest[j]]]
        /\ educations[i].evidence = <<S[o]>> \o [j \in 1..Len(att) |-> S[att[j]]]

\* C28: in _extract_entries_from_section the lines are processed in order
\* with one open entry.  A line that attaches to the open entry becomes its
\* school if it matches a school keyword and no school is set yet; else
\* becomes its school if no school is set yet and the line has no year;
\* else is appended to the degree text.  The school, once set, is never
\* overwritten, and a line met before any entry is open is attached to no
\* entry.
C28_AttachRules ==
    EducationsDone =>
        /\ Len(educations) = Cardinality(OpeningLines)
        /\ \A i \in 1..Len(educations) : EntryAsClaimed(i)

\* "Master 2021 / (plain line) / (school name)": the plain line is the
\* school, the school name that follows goes to the degree text
C28_Witness ==
    /\ EducationsDone
    /\ edu_text = <<EduLinePool[3], EduLinePool[10], EduLinePool[5]>>
    /\ Len(educations) = 1
    /\ educations[1].school = <<EduLinePool[10]>>
    /\ educations[1].degree = <<EduLinePool[3], EduLinePool[5]>>

----------------------------------------------------------------------------
(* C29 -- no tool at level 1                                               *)

\* the record a returned entry was built from
RecordsNamed(data, name) == {j \in 1..Len(data) : data[j].name = name}

\* a single mention outside any weighted section, without impact verb
SingleIncidentalMention(d) == d.mentions = 1 /\ d.score = 2 /\ ~d.has_impact

\* C29: every Tool returned by extract_top_tools has a level in 2..5: a
\* tool is kept only if it has at least 2 mentions or a score of at least
\* 4, so level 1 (a single mention outside any weighted section and without
\* impact verb, score 2) is never reported for a tool, whereas it is
\* reported for a skill.
C29_ToolLevelAtLeastTwo ==
    /\ ToolsDone =>
          \A k \in 1..Len(top_tools) :
              /\ top_tools[k].level \in 2..5
              /\ \A j \in RecordsNamed(tool_data, top_tools[k].name) :
                    /\ tool_data[j].mentions >= 2 \/ tool_data[j].score >= 4
                    /\ ~SingleIncidentalMention(tool_data[j])
    /\ SkillsDone =>
          \A j \in 1..Len(skill_data) :
              (SingleIncidentalMention(skill_data[j]) /\ Len(skill_data) <= 5) =>
                  \E k \in 1..Len(hard_skills \o soft_skills) :
                      /\ (hard_skills \o soft_skills)[k].name = skill_data[j].name
                      /\ (hard_skills \o soft_skills)[k].level = 1

\* two tools found, one mentioned once in passing and left out, the other
\* returned
C29_Witness ==
    /\ ToolsDone
    /\ Len(tool_data) = 2 /\ Len(top_tools) = 1
    /\ \E j \in 1..2 : /\ SingleIncidentalMention(tool_data[j])
                         /\ tool_data[j].name \notin Names(top_tools)
    /\ top_tools[1].level >= 2

\* the same single mention, of a skill: returned at level 1
C29_SkillAtLevelOne ==
    /\ SkillsDone
    /\ \E j \in 1..Len(skill_data) : SingleIncidentalMention(skill_data[j])
    /\ \E k \in 1..Len(hard_skills) : hard_skills[k].level = 1 /\ hard_skills[k].score = 2

----------------------------------------------------------------------------
(* C30 -- months without internships                                       *)

\* the months counted excluding internships
MonthsExcludingInternships == SumMonths(merged_no_intern)

\* C30: for every list of experiences, the number of months counted
\* excluding internships never exceeds total_months (hence
\* total_years_excluding_internships <= total_years), and the two are equal
\* when no experience carries an internship keyword.
C30_NoInternAtMostTotal ==
    YearsDone =>
        /\ MonthsExcludingInternships <= result.total_months
        /\ result.total_years_excluding_internships <= result.total_years
        /\ (\A k \in 1..Len(experiences) : ~MentionsInternship(experiences[k])) =>
              /\ MonthsExcludingInternships = result.total_months
              /\ result.total_years_excluding_internships = result.total_years

\* two jobs that overlap, the first one an internship: fewer months without
\* it, but not none
C30_Witness ==
    /\ YearsDone
    /\ Len(experiences) = 2
    /\ MentionsInternship(experiences[1]) /\ ~MentionsInternship(experiences[2])
    /\ Len(merged) = 1 /\ Len(merged_no_intern) = 1
    /\ 0 < MonthsExcludingInternships
    /\ MonthsExcludingInternships < result.total_months

====
